---------------------------- MODULE Spec2Model ----------------------------
(***************************************************************************)
(* Model of the cocktail retrieval pipeline (services/rag_service.py), its *)
(* two gateways (services/embedding_service.py,                            *)
(* services/pinecone_service.py), the rag_cocktails tool                   *)
(* (cocktail_server.py) and the metadata sanitizer.                        *)
(*                                                                         *)
(* Python values are tagged records:                                       *)
(*   [t |-> "none"]                        None                            *)
(*   [t |-> "str", s |-> <<"r","u","m">>]  a string, as its characters     *)
(*   [t |-> "int", n |-> 5]                an integer                      *)
(*   [t |-> "float", h |-> 95]             a float, in hundredths (0.95)   *)
(*   [t |-> "bool", b |-> TRUE]                                            *)
(*   [t |-> "obj", cls |-> "Match", attrs |-> <<[a |-> "id", v |-> x]>>]   *)
(*                                         an object and its attributes    *)
(*   [t |-> "list" | "tuple", items |-> <<v1, ...>>]                       *)
(*   [t |-> "dict", kv |-> <<[k |-> key, v |-> value], ...>>]              *)
(* A dict keeps its insertion order and its keys are pairwise distinct.    *)
(* Exceptions are records [type, msg, cause], cause being the type of the  *)
(* exception named by "raise ... from".                                    *)
(***************************************************************************)
EXTENDS Integers, Sequences, FiniteSets, TLC

\* Deepest nesting of the containers drawn as sanitizer inputs.
MaxDepth == 3
\* Longest flat list, tuple or dict drawn as a sanitizer input.
MaxLen == 2

None == [t |-> "none"]
PyStr(s) == [t |-> "str", s |-> s]
PyInt(n) == [t |-> "int", n |-> n]
PyFloat(h) == [t |-> "float", h |-> h]
PyBool(b) == [t |-> "bool", b |-> b]
PyObject(cls, attrs) == [t |-> "obj", cls |-> cls, attrs |-> attrs]
PyList(items) == [t |-> "list", items |-> items]
PyTuple(items) == [t |-> "tuple", items |-> items]
PyDict(kv) == [t |-> "dict", kv |-> kv]
EmptyDict == PyDict(<<>>)
EmptyList == PyList(<<>>)

\* The texts the model uses, as character sequences.
Mojito == <<"M", "o", "j", "i", "t", "o">>
Name == <<"n", "a", "m", "e">>

\* Body applied to the value of `value`, which is computed once.
With(value, Body(_)) == CHOOSE out \in {Body(x) : x \in {value}} : TRUE

IsDict(v) == v.t = "dict"
IsSeq(v) == v.t \in {"list", "tuple"}

(***************************************************************************)
(* str(value) and repr(value), as far as the sanitizer uses them: on dict  *)
(* keys and on the values that are not str, int, float or bool. An object  *)
(* of class C prints as <C>.                                               *)
(***************************************************************************)
RECURSIVE Digits(_)
Digits(n) == IF n < 10 THEN <<ToString(n)>> ELSE Digits(n \div 10) \o <<ToString(n % 10)>>

IntText(n) == IF n < 0 THEN <<"-">> \o Digits(0 - n) ELSE Digits(n)

\* repr of a float held in hundredths: 95 is 0.95, 50 is 0.5, 100 is 1.0.
FloatText(h) ==
    LET a == IF h < 0 THEN 0 - h ELSE h
        frac == IF a % 10 = 0 THEN Digits((a % 100) \div 10)
                ELSE Digits((a % 100) \div 10) \o Digits(a % 10)
    IN  (IF h < 0 THEN <<"-">> ELSE <<>>) \o Digits(a \div 100) \o <<".">> \o frac

RECURSIVE PyRepr(_), JoinRepr(_, _), JoinItems(_, _)
JoinRepr(items, i) ==
    IF i > Len(items) THEN <<>>
    ELSE (IF i > 1 THEN <<",", " ">> ELSE <<>>) \o PyRepr(items[i]) \o JoinRepr(items, i + 1)

JoinItems(kv, i) ==
    IF i > Len(kv) THEN <<>>
    ELSE (IF i > 1 THEN <<",", " ">> ELSE <<>>) \o PyRepr(kv[i].k) \o <<":", " ">>
         \o PyRepr(kv[i].v) \o JoinItems(kv, i + 1)

PyRepr(v) ==
    CASE v.t = "none" -> <<"N", "o", "n", "e">>
      [] v.t = "str" -> <<"'">> \o v.s \o <<"'">>
      [] v.t = "int" -> IntText(v.n)
      [] v.t = "float" -> FloatText(v.h)
      [] v.t = "bool" -> IF v.b THEN <<"T", "r", "u", "e">> ELSE <<"F", "a", "l", "s", "e">>
      [] v.t = "obj" -> <<"<", v.cls, ">">>
      [] v.t = "list" -> <<"[">> \o JoinRepr(v.items, 1) \o <<"]">>
      [] v.t = "tuple" ->
            <<"(">> \o JoinRepr(v.items, 1)
            \o (IF Len(v.items) = 1 THEN <<",">> ELSE <<>>) \o <<")">>
      [] v.t = "dict" -> <<"{">> \o JoinItems(v.kv, 1) \o <<"}">>

\* repr(value) taken where the code takes str(value).
ReprInsteadOfStr(v) == PyRepr(v)

str(v) == IF v.t = "str" THEN v.s ELSE PyRepr(v)

(***************************************************************************)
(* cleaned[str(key)] = value on an insertion-ordered dict: an existing key *)
(* keeps its place and takes the new value, a new key is appended.         *)
(***************************************************************************)
DictSet(kv, key, val) ==
    IF \E i \in 1..Len(kv) : kv[i].k = key
    THEN [i \in 1..Len(kv) |-> IF kv[i].k = key THEN [k |-> key, v |-> val] ELSE kv[i]]
    ELSE Append(kv, [k |-> key, v |-> val])

\* _serialize_value: str, int, float and bool pass, anything else becomes str(value).
_serialize_value(value) ==
    IF value.t \in {"str", "int", "float", "bool"} THEN value ELSE PyStr(str(value))

\* A comprehension that filters nothing.
KeepEveryItem(items) == items

\* The comprehension filter "for item in value if item is not None".
DropNone(items) == SelectSeq(items, LAMBDA item : item # None)

\* The test "cleaned_value is not None and cleaned_value != {}" that admits a
\* cleaned value into its parent mapping.
KeepInDict(cleaned_value) == cleaned_value # None /\ cleaned_value # EmptyDict

RECURSIVE _clean_metadata_dict(_), _clean_value(_), CleanItems(_, _, _), CleanEach(_, _)

\* The loop of _clean_metadata_dict over data.items(), from item i on.
CleanItems(kv, i, cleaned) ==
    IF i > Len(kv) THEN cleaned
    ELSE IF kv[i].v = None THEN CleanItems(kv, i + 1, cleaned)
    ELSE With(_clean_value(kv[i].v), LAMBDA cleaned_value :
            With(IF KeepInDict(cleaned_value)
                 THEN DictSet(cleaned, PyStr(str(kv[i].k)), cleaned_value)
                 ELSE cleaned,
                 LAMBDA next : CleanItems(kv, i + 1, next)))

\* [_clean_value(item) for item in items], from item i on.
CleanEach(items, i) ==
    IF i > Len(items) THEN <<>>
    ELSE <<_clean_value(items[i])>> \o CleanEach(items, i + 1)

_clean_metadata_dict(data) ==
    IF ~IsDict(data)
    THEN (IF data = None THEN EmptyDict ELSE _serialize_value(data))
    ELSE PyDict(CleanItems(data.kv, 1, <<>>))

_clean_value(value) ==
    IF value = None THEN None
    ELSE IF IsDict(value) THEN _clean_metadata_dict(value)
    ELSE IF IsSeq(value) THEN PyList(DropNone(CleanEach(DropNone(value.items), 1)))
    ELSE _serialize_value(value)

(***************************************************************************)
(* What the sanitizer's properties speak of: the values nested in a value. *)
(***************************************************************************)
Children(v) ==
    IF IsDict(v) THEN {v.kv[i].v : i \in 1..Len(v.kv)}
    ELSE IF IsSeq(v) THEN {v.items[i] : i \in 1..Len(v.items)}
    ELSE {}

RECURSIVE HasNone(_), HasEmptyDictChild(_), HasEmptySeqChild(_)
HasNone(v) == v = None \/ \E c \in Children(v) : HasNone(c)

HasEmptyDictChild(v) ==
    \E c \in Children(v) : c = EmptyDict \/ HasEmptyDictChild(c)

HasEmptySeqChild(v) ==
    \E c \in Children(v) : (IsSeq(c) /\ c.items = <<>>) \/ HasEmptySeqChild(c)

(***************************************************************************)
(* The sanitizer inputs: scalars, None, foreign objects, flat containers   *)
(* of up to MaxLen of them, and containers nested up to MaxDepth deep.     *)
(***************************************************************************)
Atoms == {None, PyStr(Mojito), PyObject("Obj", <<>>)}

KeyAt(i) ==
    CASE i = 1 -> PyStr(Name)
      [] i = 2 -> PyInt(1)
      [] i = 3 -> PyStr(<<"1">>)
      [] OTHER -> PyInt(i)

FlatSeqs == UNION {[1..m -> Atoms] : m \in 0..MaxLen}

Flat ==
    {PyList(s) : s \in FlatSeqs} \cup {PyTuple(s) : s \in FlatSeqs}
    \cup {PyDict([i \in 1..Len(s) |-> [k |-> KeyAt(i), v |-> s[i]]]) : s \in FlatSeqs}

Wrap(v) ==
    { PyList(<<v>>), PyTuple(<<v, None>>),
      PyDict(<<[k |-> KeyAt(1), v |-> v]>>),
      PyDict(<<[k |-> KeyAt(1), v |-> None], [k |-> KeyAt(2), v |-> v]>>),
      PyDict(<<[k |-> KeyAt(2), v |-> v], [k |-> KeyAt(3), v |-> PyStr(Mojito)]>>) }

RECURSIVE Values(_)
Values(d) ==
    IF d = 0 THEN Atoms
    ELSE IF d = 1 THEN Atoms \cup Flat
    ELSE Values(d - 1) \cup UNION {Wrap(v) : v \in Values(d - 1)}

(***************************************************************************)
(* Python's truth value, len(), iteration, attribute and key access.       *)
(***************************************************************************)
Truthy(v) ==
    CASE v.t = "none" -> FALSE
      [] v.t = "str" -> v.s # <<>>
      [] v.t = "int" -> v.n # 0
      [] v.t = "float" -> v.h # 0
      [] v.t = "bool" -> v.b
      [] v.t \in {"list", "tuple"} -> v.items # <<>>
      [] v.t = "dict" -> v.kv # <<>>
      [] v.t = "obj" -> TRUE

HasLen(v) == v.t \in {"str", "list", "tuple", "dict"}

TypeName(v) ==
    CASE v.t = "none" -> "NoneType"
      [] v.t = "obj" -> v.cls
      [] OTHER -> v.t

HasAttr(v, a) == v.t = "obj" /\ \E i \in 1..Len(v.attrs) : v.attrs[i].a = a
GetAttr(v, a) == v.attrs[CHOOSE i \in 1..Len(v.attrs) : v.attrs[i].a = a].v

DictHas(d, key) == \E i \in 1..Len(d.kv) : d.kv[i].k = key
\* d.get(key): the value, or None when the key is absent.
DictGet(d, key) ==
    IF DictHas(d, key) THEN d.kv[CHOOSE i \in 1..Len(d.kv) : d.kv[i].k = key].v ELSE None

\* "x" where the code has "x or []".
KeepFalsy(x) == x

\* "x or []"
OrEmptyList(x) == IF Truthy(x) THEN x ELSE EmptyList

(***************************************************************************)
(* Results of a call: a returned value or a raised exception.              *)
(***************************************************************************)
Ret(v) == [ok |-> TRUE, val |-> v]
Raise(e) == [ok |-> FALSE, exc |-> e]
Exception(type, msg, cause) == [type |-> type, msg |-> msg, cause |-> cause]
RAGError(msg, cause) == Exception("RAGError", msg, cause)
PineconeError(msg, cause) == Exception("PineconeError", msg, cause)
ValueError(msg) == Exception("ValueError", msg, "none")
TypeError(msg) == Exception("TypeError", msg, "none")
RuntimeError(msg) == Exception("RuntimeError", msg, "none")

\* "for x in v": the elements, or TypeError for a value that is not iterable.
Iterate(v) ==
    CASE v.t \in {"list", "tuple"} -> Ret(v.items)
      [] v.t = "dict" -> Ret([i \in 1..Len(v.kv) |-> v.kv[i].k])
      [] v.t = "str" -> Ret([i \in 1..Len(v.s) |-> PyStr(<<v.s[i]>>)])
      [] OTHER -> Raise(TypeError("'" \o TypeName(v) \o "' object is not iterable"))

\* str.strip() over the whitespace of the model's alphabet.
IsSpace(c) == c \in {" ", "\t", "\n"}
RECURSIVE LStrip(_), RStrip(_)
LStrip(s) == IF s # <<>> /\ IsSpace(Head(s)) THEN LStrip(Tail(s)) ELSE s
RStrip(s) == IF s # <<>> /\ IsSpace(s[Len(s)]) THEN RStrip(SubSeq(s, 1, Len(s) - 1)) ELSE s
Strip(s) == RStrip(LStrip(s))

(***************************************************************************)
(* float(x), to hundredths. A string parses when it is, after stripping,   *)
(* an optional sign and decimal digits with at most one point; exponents,  *)
(* "inf" and "nan" are outside the texts drawn here.                       *)
(***************************************************************************)
DigitVal(c) ==
    CASE c = "0" -> 0 [] c = "1" -> 1 [] c = "2" -> 2 [] c = "3" -> 3 [] c = "4" -> 4
      [] c = "5" -> 5 [] c = "6" -> 6 [] c = "7" -> 7 [] c = "8" -> 8 [] c = "9" -> 9
IsDigit(c) == c \in {"0", "1", "2", "3", "4", "5", "6", "7", "8", "9"}

RECURSIVE DigitsVal(_)
DigitsVal(s) == IF s = <<>> THEN 0 ELSE 10 * DigitsVal(SubSeq(s, 1, Len(s) - 1)) + DigitVal(s[Len(s)])

ParseFloat(text) ==
    LET s0 == Strip(text)
        neg == s0 # <<>> /\ Head(s0) = "-"
        s1 == IF s0 # <<>> /\ Head(s0) \in {"-", "+"} THEN Tail(s0) ELSE s0
        points == {i \in 1..Len(s1) : s1[i] = "."}
        p == IF points = {} THEN Len(s1) + 1 ELSE CHOOSE i \in points : TRUE
        whole == SubSeq(s1, 1, p - 1)
        frac == SubSeq(s1, p + 1, Len(s1))
        frac2 == SubSeq(frac \o <<"0", "0">>, 1, 2)
        wellFormed ==
            /\ Cardinality(points) <= 1
            /\ \A i \in 1..Len(s1) : i \in points \/ IsDigit(s1[i])
            /\ Len(whole) + Len(frac) > 0
        h == 100 * DigitsVal(whole) + DigitsVal(frac2)
    IN  IF wellFormed THEN Ret(PyFloat(IF neg THEN 0 - h ELSE h))
        ELSE Raise(ValueError("could not convert string to float"))

FloatOf(v) ==
    CASE v.t = "float" -> Ret(v)
      [] v.t = "int" -> Ret(PyFloat(100 * v.n))
      [] v.t = "bool" -> Ret(PyFloat(IF v.b THEN 100 ELSE 0))
      [] v.t = "str" -> ParseFloat(v.s)
      [] OTHER -> Raise(TypeError("float() argument must be a string or a real number"))

(***************************************************************************)
(* services/embedding_service.py: embed_query and what it calls. The       *)
(* provider's answer `response` is Ret(embeddings) or Raise(fault).        *)
(***************************************************************************)
_get_embedding_model(env) ==
    IF ~Truthy(env) THEN Raise(ValueError("EMBEDDING_MODEL environment variable is not set"))
    ELSE Ret(env)

\* [float(val) for val in vector]
FloatEach(vector) == [i \in 1..Len(vector) |-> FloatOf(vector[i]).val]

\* _create_embedding returning the last vector of the response as it came.
CreateEmbeddingUnconverted(model, input_text, response) ==
    IF ~response.ok THEN Raise(response.exc)
    ELSE IF ~Truthy(response.val) THEN Raise(ValueError("No embedding returned from model"))
    ELSE Ret(response.val.items[Len(response.val.items)])

\* The components of the vector that float() refuses.
NotFloatable(vector) == {i \in 1..Len(vector) : ~FloatOf(vector[i]).ok}

_create_embedding(model, input_text, response) ==
    IF ~response.ok THEN Raise(response.exc)
    ELSE IF ~Truthy(response.val) THEN Raise(ValueError("No embedding returned from model"))
    ELSE With(response.val.items[1].items, LAMBDA first :
        IF NotFloatable(first) # {}
        THEN FloatOf(first[CHOOSE i \in NotFloatable(first) : \A j \in NotFloatable(first) : i <= j])
        ELSE Ret(PyList(FloatEach(first))))

\* The text check of embed_query: "not query or not query.strip()".
EmbedTextInvalid(query) == ~Truthy(query) \/ Strip(query.s) = <<>>

\* Whether embed_query reaches ollama.embed: both of its checks passed.
EmbedReachesProvider(query, env) == ~EmbedTextInvalid(query) /\ _get_embedding_model(env).ok

\* embed_query resolving the model before it looks at the text.
EmbedQueryModelFirst(query, env, response) ==
    IF ~_get_embedding_model(env).ok THEN _get_embedding_model(env)
    ELSE IF EmbedTextInvalid(query) THEN Raise(ValueError("Query cannot be empty or whitespace"))
    ELSE _create_embedding(_get_embedding_model(env).val, Strip(query.s), response)

embed_query(query, env, response) ==
    IF EmbedTextInvalid(query) THEN Raise(ValueError("Query cannot be empty or whitespace"))
    ELSE IF ~_get_embedding_model(env).ok THEN _get_embedding_model(env)
    ELSE _create_embedding(_get_embedding_model(env).val, Strip(query.s), response)

(***************************************************************************)
(* services/pinecone_service.py: query_cocktails. The index's answer       *)
(* `response` is Ret(result) or Raise(fault).                              *)
(***************************************************************************)
max_top_k == 1000
default_top_k == 5

\* The top_k as given, not clamped.
TopKUnclamped(top_k) == top_k

EffectiveTopK(top_k) ==
    LET k == IF top_k <= 0 THEN default_top_k ELSE top_k
    IN  IF k > max_top_k THEN max_top_k ELSE k

\* query_cocktails without its empty-vector test.
QueryAlwaysReachesIndex(vector) == TRUE

\* Whether query_cocktails reaches index.query: the vector is not empty.
QueryReachesIndex(vector) == Truthy(vector)

\* The debug line after index.query takes len(result.matches) when result has a
\* truthy matches attribute; a value without len() raises inside the try block.
QueryLogFails(result) ==
    /\ HasAttr(result, "matches")
    /\ Truthy(GetAttr(result, "matches"))
    /\ ~HasLen(GetAttr(result, "matches"))

\* query_cocktails without its empty-vector return.
QueryWithoutShortCircuit(top_k, vector, response) ==
    IF ~response.ok
    THEN Raise(PineconeError("Cocktail query failed: " \o response.exc.msg, response.exc.type))
    ELSE Ret(response.val)

query_cocktails(top_k, vector, response) ==
    IF ~QueryReachesIndex(vector) THEN Ret(None)
    ELSE IF ~response.ok
    THEN Raise(PineconeError("Cocktail query failed: " \o response.exc.msg, response.exc.type))
    ELSE IF QueryLogFails(response.val)
    THEN Raise(PineconeError("Cocktail query failed: object has no len()", "TypeError"))
    ELSE Ret(response.val)

(***************************************************************************)
(* services/rag_service.py: the stages of run_cocktail_rag.                *)
(***************************************************************************)
\* _validate_query without its "not query.strip()" test.
ValidateWithoutStrip(query) ==
    IF ~Truthy(query) \/ query.t # "str"
    THEN Raise(RAGError("Query must be a non-empty string", "none"))
    ELSE Ret(None)

_validate_query(query) ==
    IF ~Truthy(query) \/ query.t # "str" \/ Strip(query.s) = <<>>
    THEN Raise(RAGError("Query must be a non-empty string", "none"))
    ELSE Ret(None)

\* The handler "except Exception as e: raise RAGError(prefix + str(e)) from e".
WrapAs(prefix, exc) == RAGError(prefix \o exc.msg, exc.type)

\* _create_query_embedding whose handler returns an empty embedding instead of raising.
CreateEmbeddingSwallowing(gateway) ==
    IF ~gateway.ok \/ gateway.val = None \/ ~HasLen(gateway.val) THEN Ret(EmptyList)
    ELSE Ret(gateway.val)

\* _create_query_embedding, given what embed_query did.
_create_query_embedding(gateway) ==
    IF ~gateway.ok THEN Raise(WrapAs("Embedding creation failed: ", gateway.exc))
    ELSE IF gateway.val = None
    THEN Raise(WrapAs("Embedding creation failed: ",
                      RAGError("Failed to create embedding for query", "none")))
    ELSE IF ~HasLen(gateway.val)
    THEN Raise(WrapAs("Embedding creation failed: ", TypeError("object has no len()")))
    ELSE Ret(gateway.val)

\* _query_vector_database without its "results is None" test.
QueryDatabaseWithoutNoneTest(gateway) ==
    IF ~gateway.ok THEN Raise(WrapAs("Vector database query failed: ", gateway.exc))
    ELSE Ret(gateway.val)

\* _query_vector_database, given what query_cocktails did.
_query_vector_database(gateway) ==
    IF ~gateway.ok THEN Raise(WrapAs("Vector database query failed: ", gateway.exc))
    ELSE IF gateway.val = None
    THEN Raise(WrapAs("Vector database query failed: ",
                      RAGError("No results returned from vector database", "none")))
    ELSE Ret(gateway.val)

KeyId == PyStr(<<"i", "d">>)
KeyScore == PyStr(<<"s", "c", "o", "r", "e">>)
KeyMetadata == PyStr(<<"m", "e", "t", "a", "d", "a", "t", "a">>)
KeyMatches == PyStr(<<"m", "a", "t", "c", "h", "e", "s">>)

_extract_matches(results) ==
    IF HasAttr(results, "matches") THEN Ret(OrEmptyList(GetAttr(results, "matches")))
    ELSE IF IsDict(results) /\ DictHas(results, KeyMatches)
    THEN Ret(OrEmptyList(DictGet(results, KeyMatches)))
    ELSE Raise(RAGError("Unexpected results format: <class '" \o TypeName(results) \o "'>",
                        "none"))

_extract_match_id(match) ==
    IF HasAttr(match, "id") /\ GetAttr(match, "id") # None
    THEN Ret(PyStr(str(GetAttr(match, "id"))))
    ELSE IF IsDict(match) /\ DictGet(match, KeyId) # None
    THEN Ret(PyStr(str(DictGet(match, KeyId))))
    ELSE Ret(PyStr(<<>>))

\* _extract_match_score without float(): the score as the match carries it.
ExtractScoreUncoerced(match) ==
    IF HasAttr(match, "score") /\ GetAttr(match, "score") # None
    THEN Ret(GetAttr(match, "score"))
    ELSE IF IsDict(match) /\ DictGet(match, KeyScore) # None
    THEN Ret(DictGet(match, KeyScore))
    ELSE Ret(PyFloat(0))

_extract_match_score(match) ==
    IF HasAttr(match, "score") /\ GetAttr(match, "score") # None
    THEN FloatOf(GetAttr(match, "score"))
    ELSE IF IsDict(match) /\ DictGet(match, KeyScore) # None
    THEN FloatOf(DictGet(match, KeyScore))
    ELSE Ret(PyFloat(0))

_extract_and_clean_metadata(match) ==
    LET metadata ==
            IF HasAttr(match, "metadata") /\ GetAttr(match, "metadata") # None
            THEN GetAttr(match, "metadata")
            ELSE IF IsDict(match) /\ DictGet(match, KeyMetadata) # None
            THEN DictGet(match, KeyMetadata)
            ELSE EmptyDict
    IN  Ret(_clean_metadata_dict(metadata))

\* The record {'id': ..., 'score': ..., 'metadata': ...}.
MatchRecord(id, score, metadata) ==
    PyDict(<<[k |-> KeyId, v |-> id], [k |-> KeyScore, v |-> score],
             [k |-> KeyMetadata, v |-> metadata]>>)

_process_single_match(match) ==
    With(_extract_match_id(match), LAMBDA id :
        IF ~id.ok THEN id
        ELSE With(_extract_match_score(match), LAMBDA score :
            IF ~score.ok THEN score
            ELSE With(_extract_and_clean_metadata(match), LAMBDA metadata :
                IF ~metadata.ok THEN metadata
                ELSE Ret(MatchRecord(id.val, score.val, metadata.val)))))

\* A loop that stops at the first match whose processing raises.
RECURSIVE ProcessMatchesAborting(_, _)
ProcessMatchesAborting(matches, i) ==
    IF i > Len(matches) THEN <<>>
    ELSE With(_process_single_match(matches[i]), LAMBDA processed_match :
            IF processed_match.ok
            THEN <<processed_match.val>> \o ProcessMatchesAborting(matches, i + 1)
            ELSE <<>>)

\* A loop that puts each record in front of the ones processed before it.
RECURSIVE ProcessMatchesReversed(_, _)
ProcessMatchesReversed(matches, i) ==
    IF i > Len(matches) THEN <<>>
    ELSE With(_process_single_match(matches[i]), LAMBDA processed_match :
            ProcessMatchesReversed(matches, i + 1)
            \o (IF processed_match.ok THEN <<processed_match.val>> ELSE <<>>))

\* The loop of _process_query_results: a match whose processing raises is skipped.
RECURSIVE ProcessMatches(_, _)
ProcessMatches(matches, i) ==
    IF i > Len(matches) THEN <<>>
    ELSE With(_process_single_match(matches[i]), LAMBDA processed_match :
            (IF processed_match.ok THEN <<processed_match.val>> ELSE <<>>)
            \o ProcessMatches(matches, i + 1))

\* Whether json.dumps(v) succeeds.
RECURSIVE JsonSerializable(_)
JsonSerializable(v) ==
    CASE v.t \in {"none", "str", "int", "float", "bool"} -> TRUE
      [] v.t \in {"list", "tuple"} -> \A i \in 1..Len(v.items) : JsonSerializable(v.items[i])
      [] v.t = "dict" ->
            \A i \in 1..Len(v.kv) :
                /\ v.kv[i].k.t \in {"none", "str", "int", "float", "bool"}
                /\ JsonSerializable(v.kv[i].v)
      [] OTHER -> FALSE

\* A validation that accepts everything.
ValidateNothing(data) == Ret(None)

_validate_json_serialization(data) ==
    IF JsonSerializable(data) THEN Ret(None)
    ELSE Raise(RAGError("Failed to serialize result to JSON: Object is not JSON serializable",
                        "TypeError"))

_process_query_results(results) ==
    With(_extract_matches(results), LAMBDA matches :
        IF ~matches.ok THEN matches
        ELSE IF ~Truthy(matches.val) THEN Ret(EmptyList)
        ELSE With(Iterate(matches.val), LAMBDA each :
            IF ~each.ok THEN each
            ELSE With(PyList(ProcessMatches(each.val, 1)), LAMBDA processed_matches :
                With(_validate_json_serialization(processed_matches), LAMBDA valid :
                    IF ~valid.ok THEN valid ELSE Ret(processed_matches)))))

(***************************************************************************)
(* _process_query_results with _process_single_match replaced by a test    *)
(* double whose side_effect lists what its calls return or raise, as       *)
(* unittest.mock does: call i takes item i, a call past the end raises     *)
(* StopIteration.                                                          *)
(***************************************************************************)
Unpatched == [patched |-> FALSE, side_effect |-> <<>>]
SideEffect(outcomes) == [patched |-> TRUE, side_effect |-> outcomes]

\* Call i of _process_single_match, the code or its double.
CallSingle(double, match, i) ==
    IF ~double.patched THEN _process_single_match(match)
    ELSE IF i <= Len(double.side_effect) THEN double.side_effect[i]
    ELSE Raise(Exception("StopIteration", "", "none"))

RECURSIVE PatchedMatches(_, _, _)
PatchedMatches(matches, i, double) ==
    IF i > Len(matches) THEN <<>>
    ELSE With(CallSingle(double, matches[i], i), LAMBDA processed_match :
            (IF processed_match.ok THEN <<processed_match.val>> ELSE <<>>)
            \o PatchedMatches(matches, i + 1, double))

ProcessPatched(results, double) ==
    With(_extract_matches(results), LAMBDA matches :
        IF ~matches.ok THEN matches
        ELSE IF ~Truthy(matches.val) THEN Ret(EmptyList)
        ELSE With(Iterate(matches.val), LAMBDA each :
            IF ~each.ok THEN each
            ELSE With(PyList(PatchedMatches(each.val, 1, double)), LAMBDA processed_matches :
                With(_validate_json_serialization(processed_matches), LAMBDA valid :
                    IF ~valid.ok THEN valid ELSE Ret(processed_matches)))))

\* run_cocktail_rag without its "except Exception" handler.
ReraiseUnwrapped(exc) == exc

\* The handlers of run_cocktail_rag: a RAGError passes, any other exception is
\* wrapped in one.
Reraise(exc) ==
    IF exc.type = "RAGError" THEN exc ELSE WrapAs("RAG processing failed: ", exc)

(***************************************************************************)
(* cocktail_server.py: the rag_cocktails tool and its own clean_dict.      *)
(***************************************************************************)
RECURSIVE clean_dict(_), CleanDictItems(_, _, _)

\* The loop of clean_dict over d.items(), from item i on.
CleanDictItems(kv, i, clean) ==
    IF i > Len(kv) THEN clean
    ELSE With(kv[i].v, LAMBDA value :
         With(PyStr(str(kv[i].k)), LAMBDA key :
         With(IF value = None THEN clean
              ELSE IF IsDict(value)
              THEN With(clean_dict(value), LAMBDA cleaned_value :
                        IF Truthy(cleaned_value) THEN DictSet(clean, key, cleaned_value)
                        ELSE clean)
              ELSE IF IsSeq(value)
              THEN (IF DropNone(value.items) # <<>>
                    THEN DictSet(clean, key, PyList(DropNone(value.items)))
                    ELSE clean)
              ELSE IF value.t \in {"str", "int", "float", "bool"}
              THEN DictSet(clean, key, value)
              ELSE DictSet(clean, key, PyStr(str(value))),
              LAMBDA next : CleanDictItems(kv, i + 1, next))))

clean_dict(d) ==
    IF ~IsDict(d) THEN (IF d # None THEN d ELSE EmptyDict)
    ELSE PyDict(CleanDictItems(d.kv, 1, <<>>))

\* dict(x): a copy of a dict, or the dict of the two-element items of an iterable.
IsHashable(v) == v.t \notin {"list", "dict"}
RECURSIVE PairsToDict(_, _, _)
PairsToDict(items, i, acc) ==
    IF i > Len(items) THEN Ret(PyDict(acc))
    ELSE With(Iterate(items[i]), LAMBDA pair :
            IF ~pair.ok THEN Raise(TypeError("cannot convert dictionary update sequence element"))
            ELSE IF Len(pair.val) # 2
            THEN Raise(ValueError("dictionary update sequence element has the wrong length"))
            ELSE IF ~IsHashable(pair.val[1]) THEN Raise(TypeError("unhashable type"))
            ELSE With(DictSet(acc, pair.val[1], pair.val[2]),
                      LAMBDA next : PairsToDict(items, i + 1, next)))

DictOf(x) ==
    IF IsDict(x) THEN Ret(x)
    ELSE With(Iterate(x), LAMBDA each :
            IF ~each.ok THEN each ELSE PairsToDict(each.val, 1, <<>>))

\* One pass of the loop of rag_cocktails over the matches: the record built
\* from `match`, or the exception that makes the loop skip it.
ToolMatch(match) ==
    With(_extract_match_id(match), LAMBDA match_id :
    With(_extract_match_score(match), LAMBDA match_score :
        IF ~match_score.ok THEN match_score
        ELSE LET match_metadata ==
                     IF HasAttr(match, "metadata") /\ GetAttr(match, "metadata") # None
                     THEN GetAttr(match, "metadata")
                     ELSE IF IsDict(match) /\ DictGet(match, KeyMetadata) # None
                     THEN DictGet(match, KeyMetadata)
                     ELSE EmptyDict
             IN  Ret(MatchRecord(match_id.val, match_score.val, clean_dict(match_metadata)))))

RECURSIVE ToolMatches(_, _), SafeResult(_, _)
ToolMatches(matches, i) ==
    IF i > Len(matches) THEN <<>>
    ELSE With(ToolMatch(matches[i]), LAMBDA match_dict :
            (IF match_dict.ok THEN <<match_dict.val>> ELSE <<>>) \o ToolMatches(matches, i + 1))

\* The last loop of rag_cocktails: str(id), float(score), dict(metadata) of each
\* record, from record i on; the first conversion that raises ends it.
SafeResult(matches, i) ==
    IF i > Len(matches) THEN Ret(<<>>)
    ELSE With(FloatOf(DictGet(matches[i], KeyScore)), LAMBDA score :
         With(DictOf(DictGet(matches[i], KeyMetadata)), LAMBDA metadata :
            IF ~score.ok THEN score
            ELSE IF ~metadata.ok THEN metadata
            ELSE With(SafeResult(matches, i + 1), LAMBDA rest :
                    IF ~rest.ok THEN rest
                    ELSE Ret(<<MatchRecord(PyStr(str(DictGet(matches[i], KeyId))),
                                           score.val, metadata.val)>> \o rest.val))))

Failed(what) == [ok |-> FALSE, failure |-> what]

\* rag_cocktails from the answer `results` of query_cocktails on: the list it
\* returns, or the failure that makes it return [].
ToolResults(results) ==
    IF results = None THEN Failed("search")
    ELSE IF ~HasAttr(results, "matches") /\ ~(IsDict(results) /\ DictHas(results, KeyMatches))
    THEN Failed("format")
    ELSE With(IF HasAttr(results, "matches") THEN GetAttr(results, "matches")
              ELSE DictGet(results, KeyMatches), LAMBDA matches :
         IF matches = None THEN Ret(EmptyList)
         ELSE IF ~HasLen(matches) THEN Failed("length")
         ELSE IF ~Truthy(matches) THEN Ret(EmptyList)
         ELSE With(PyList(ToolMatches(Iterate(matches).val, 1)), LAMBDA serializable_matches :
              IF ~JsonSerializable(serializable_matches) THEN Failed("serialization")
              ELSE With(SafeResult(serializable_matches.items, 1), LAMBDA safe_result :
                   IF ~safe_result.ok THEN Failed("conversion")
                   ELSE Ret(PyList(safe_result.val)))))

(***************************************************************************)
(* The inputs and the answers of the collaborators of one invocation.      *)
(***************************************************************************)
\* Longest query text drawn, over the alphabet {" ", "m"}.
MaxQueryLen == 2

QueryTexts == UNION {[1..n -> {" ", "m"}] : n \in 0..MaxQueryLen}
Queries ==
    {PyStr(q) : q \in QueryTexts}
    \cup {None, PyInt(0), PyInt(5), EmptyList, PyList(<<PyStr(<<"m">>)>>)}
TopKs == {0 - 3, 0, 5, 1000, 1001}
EmbeddingModels == {None, PyStr(<<"n", "o", "m", "i", "c">>)}

Fault(type, msg) == Raise(Exception(type, msg, "none"))

\* What ollama.embed may do: raise, or answer with its embeddings field.
ProviderResponses ==
    { Fault("ConnectionError", "connection refused"),
      Ret(EmptyList),
      Ret(PyList(<<EmptyList>>)),
      Ret(PyList(<<PyList(<<PyInt(1), PyFloat(50)>>)>>)),
      Ret(PyList(<<PyList(<<PyFloat(10)>>), PyList(<<PyFloat(90)>>)>>)) }

\* What a test double standing for embed_query may do.
PatchedEmbedOutcomes ==
    { Ret(None), Ret(EmptyList), Ret(PyList(<<PyFloat(10), PyFloat(20)>>)), Ret(PyInt(7)),
      Fault("Exception", "Embedding failed") }

MatchObject(id, score, metadata) ==
    PyObject("Match", <<[a |-> "id", v |-> id], [a |-> "score", v |-> score],
                        [a |-> "metadata", v |-> metadata]>>)
MatchDict(id, score, metadata) ==
    PyDict(<<[k |-> KeyId, v |-> id], [k |-> KeyScore, v |-> score],
             [k |-> KeyMetadata, v |-> metadata]>>)

MetaMojito ==
    PyDict(<<[k |-> PyStr(Name), v |-> PyStr(Mojito)],
             [k |-> PyStr(<<"e", "m", "p", "t", "y">>), v |-> None]>>)
MetaTags ==
    PyDict(<<[k |-> PyStr(<<"t", "a", "g", "s">>), v |-> PyList(<<None, PyStr(<<"r", "u", "m">>)>>)],
             [k |-> PyInt(1), v |-> PyObject("Obj", <<>>)]>>)

Cocktail1 == MatchObject(PyStr(<<"c", "1">>), PyFloat(95), MetaMojito)
Cocktail2 == MatchDict(PyInt(2), PyStr(<<"0", ".", "5">>), MetaTags)
BadScore == MatchDict(PyStr(<<"c", "3">>), PyStr(<<"a", "b", "c">>), MetaMojito)
AllNone == MatchObject(None, None, None)
NoFields == PyDict(<<>>)
ListMeta == MatchObject(PyStr(<<"c", "4">>), PyInt(1), PyList(<<None>>))

\* A metadata with a None inside a mapping that is an element of a list, and
\* inside a list nested in a list.
MetaNested ==
    PyDict(<<[k |-> PyStr(<<"t", "a", "g", "s">>),
              v |-> PyList(<<PyDict(<<[k |-> PyStr(Name), v |-> None]>>), PyList(<<None>>),
                             PyStr(<<"r", "u", "m">>)>>)]>>)
Cocktail5 == MatchObject(PyStr(<<"c", "5">>), PyFloat(50), MetaNested)

MatchLists ==
    { <<Cocktail1>>, <<Cocktail1, BadScore>>, <<BadScore>>, <<Cocktail2, AllNone>>,
      <<NoFields, ListMeta>>, <<PyStr(<<"m", "1">>), Cocktail1>>, <<Cocktail5>> }

\* The raw results a search may answer with.
RawResults ==
    {PyObject("QueryResponse", <<[a |-> "matches", v |-> PyList(m)]>>) : m \in MatchLists}
    \cup {PyDict(<<[k |-> KeyMatches, v |-> PyList(m)]>>) : m \in MatchLists}
    \cup { PyObject("QueryResponse", <<[a |-> "matches", v |-> None]>>),
           PyObject("QueryResponse", <<[a |-> "matches", v |-> EmptyList]>>),
           PyObject("QueryResponse", <<[a |-> "matches", v |-> PyInt(5)]>>),
           PyObject("QueryResponse", <<>>),
           PyDict(<<[k |-> KeyMatches, v |-> None]>>),
           PyDict(<<[k |-> KeyMatches, v |-> PyInt(5)]>>),
           PyDict(<<>>),
           PyStr(<<"i", "n", "v", "a", "l", "i", "d">>) }

\* What index.query may do.
IndexResponses ==
    {Ret(r) : r \in RawResults} \cup {Ret(None), Fault("PineconeApiException", "index unavailable")}

\* What a test double standing for query_cocktails may do.
PatchedSearchOutcomes ==
    {Ret(r) : r \in RawResults} \cup {Ret(None), Fault("Exception", "Query failed")}

VARIABLES
    pc,             \* where run_cocktail_rag stands: validate, embed, search, process, done
    query, top_k,   \* its arguments
    patched,        \* the gateways a test double stands for, as unittest.mock.patch sets them
    env,            \* the EMBEDDING_MODEL setting
    embedding,      \* the local `embedding` of run_cocktail_rag
    results,        \* the local `results` of run_cocktail_rag
    outcome,        \* how the call ended: [kind |-> "pending" | "return" | "raise", ...]
    stages,         \* the stages entered so far, in order
    failedStage,    \* the stage that failed, or "none"
    embedCalls,     \* the arguments of each call of embed_query
    providerCalls,  \* the arguments of each call of ollama.embed
    searchCalls,    \* the arguments of each call of query_cocktails
    indexCalls,     \* the arguments of each call of index.query
    embedAnswer,    \* what embed_query did: NotCalled, Ret(value) or Raise(exception)
    searchAnswer,   \* what query_cocktails did: NotCalled, Ret(value) or Raise(exception)
    indexAnswer,    \* what index.query did: NotCalled, Ret(value) or Raise(exception)
    cpc, data, cleaned, \* a call of the sanitizer: its position, argument and result
    recleaned,      \* the result of the sanitizer called on its own result
    tpc,            \* where rag_cocktails stands: start, embed, search, done
    tquery,         \* its argument
    tembedding,     \* its local `embedding`
    toutcome,       \* how it ended: Pending, Returned(list) or Raised(exception)
    tfailure,       \* what failed inside it, or "none"
    tindexCalls,    \* the arguments of each call of index.query it made
    ppc,            \* where a call of _process_query_results stands: call, done
    presults,       \* its argument
    pdouble,        \* Unpatched, or the double standing for _process_single_match
    pextract,       \* what _extract_matches did
    psingles,       \* what each call of _process_single_match did, in call order
    pout,           \* what _process_query_results did
    ipc,            \* where an operation of pinecone_service stands: call, upsert, done
    iop,            \* the operation called
    iarg,           \* its arguments
    ivectors,       \* the local `vectors` of _upsert_vectors
    inext,          \* the loop variable i of _upsert_vectors
    icalls,         \* the calls made to the index, in order, each with its outcome
    istored,        \* how many vectors the index holds
    ichain,         \* the exceptions raised in the operation, each the cause of the next
    iout,           \* how the operation ended: Pending, Returned(value) or Raised(exception)
    epc,            \* where an operation of embedding_service stands: call, loop, done
    eop,            \* the operation called
    earg,           \* its argument: the query, or the items
    eenv,           \* the EMBEDDING_MODEL setting
    ecalls,         \* the calls of _create_embedding, in order, each with what it did
    enext,          \* how many items the loop has passed
    emap,           \* the local `embeddings_map`
    eout,           \* how the operation ended
    answers,        \* the arguments of each invocation and what the providers answer to it
    positions,      \* where each invocation stands: validate, embed, search, process, done
    frames,         \* the locals `embedding` and `results` of run_cocktail_rag, by frame
    endings,        \* how each invocation ended
    moduleState,    \* the module-level state the invocations share
    spc,            \* where the startup script stands
    srun,           \* which run of the script this is: 1 or 2
    scatalog,       \* the cocktails and ingredients of the data file
    sindex,         \* the ids of the vectors the index holds
    svector_count,  \* the script's `vector_count`
    sembeddings,    \* the script's `cocktail_embeddings` and `ingredient_embeddings`
    scalls,         \* the calls the script made in this run, in order
    sprev,          \* the calls of the run before
    sout            \* how the run ended

ragVars ==
    <<pc, query, top_k, patched, env, embedding, results, outcome, stages, failedStage,
      embedCalls, providerCalls, searchCalls, indexCalls, embedAnswer, searchAnswer,
      indexAnswer>>
cleanVars == <<cpc, data, cleaned, recleaned>>
toolVars == <<tpc, tquery, tembedding, toutcome, tfailure, tindexCalls>>
procVars == <<ppc, presults, pdouble, pextract, psingles, pout>>
indexVars == <<ipc, iop, iarg, ivectors, inext, icalls, istored, ichain, iout>>
embVars == <<epc, eop, earg, eenv, ecalls, enext, emap, eout>>
concVars == <<answers, positions, frames, endings, moduleState>>
startVars == <<spc, srun, scatalog, sindex, svector_count, sembeddings, scalls, sprev, sout>>
coreVars == <<ragVars, cleanVars, toolVars, procVars, indexVars>>
vars == <<coreVars, embVars, concVars, startVars>>

NotCalled == [called |-> FALSE]
Pending == [kind |-> "pending"]
Returned(v) == [kind |-> "return", value |-> v]
Raised(e) == [kind |-> "raise", exc |-> e]

StageOrder == <<"Validate", "Embed", "Search", "Sanitize", "Return">>

RagIdle ==
    /\ pc = "idle" /\ query = None /\ top_k = 5 /\ patched = {} /\ env = None
    /\ embedding = None /\ results = None /\ outcome = Pending
    /\ stages = <<>> /\ failedStage = "none"
    /\ embedCalls = <<>> /\ providerCalls = <<>> /\ searchCalls = <<>> /\ indexCalls = <<>>
    /\ embedAnswer = NotCalled /\ searchAnswer = NotCalled /\ indexAnswer = NotCalled

CleanIdle == cpc = "idle" /\ data = None /\ cleaned = None /\ recleaned = None

ToolIdle ==
    /\ tpc = "idle" /\ tquery = None /\ tembedding = None /\ toutcome = Pending
    /\ tfailure = "none" /\ tindexCalls = <<>>

IndexIdle ==
    /\ ipc = "idle" /\ iop = "none" /\ iarg = None /\ ivectors = <<>> /\ inext = 0
    /\ icalls = <<>> /\ istored = 0 /\ ichain = <<>> /\ iout = Pending

EmbedIdle ==
    /\ epc = "idle" /\ eop = "none" /\ earg = None /\ eenv = None
    /\ ecalls = <<>> /\ enext = 0 /\ emap = <<>> /\ eout = Pending

ConcIdle ==
    /\ answers = <<>> /\ positions = <<>> /\ frames = <<>> /\ endings = <<>>
    /\ moduleState = None

StartIdle ==
    /\ spc = "idle" /\ srun = 0 /\ scatalog = <<>> /\ sindex = {} /\ svector_count = 0
    /\ sembeddings = <<>> /\ scalls = <<>> /\ sprev = <<>> /\ sout = Pending

ProcIdle ==
    /\ ppc = "idle" /\ presults = None /\ pdouble = Unpatched
    /\ pextract = NotCalled /\ psingles = <<>> /\ pout = NotCalled

CoreIdle == RagIdle /\ CleanIdle /\ ToolIdle /\ IndexIdle /\ ProcIdle

(***************************************************************************)
(* run_cocktail_rag(query, top_k): one invocation, stage by stage.         *)
(***************************************************************************)
InitRag ==
    /\ pc = "validate"
    /\ query \in Queries
    /\ top_k \in TopKs
    /\ patched \in SUBSET {"embed_query", "query_cocktails"}
    /\ env \in EmbeddingModels
    /\ embedding = None /\ results = None /\ outcome = Pending
    /\ stages = <<>> /\ failedStage = "none"
    /\ embedCalls = <<>> /\ providerCalls = <<>> /\ searchCalls = <<>> /\ indexCalls = <<>>
    /\ embedAnswer = NotCalled /\ searchAnswer = NotCalled /\ indexAnswer = NotCalled
    /\ CleanIdle /\ ToolIdle /\ ProcIdle /\ IndexIdle
    /\ EmbedIdle /\ ConcIdle /\ StartIdle

\* A stage raised: the handlers of run_cocktail_rag end the call.
Fail(stage, exc) ==
    /\ outcome' = Raised(Reraise(exc))
    /\ failedStage' = stage
    /\ pc' = "done"

Validate ==
    /\ pc = "validate"
    /\ stages' = Append(stages, "Validate")
    /\ \E r \in {_validate_query(query)} :
          IF r.ok THEN pc' = "embed" /\ UNCHANGED <<outcome, failedStage>>
          ELSE Fail("Validate", r.exc)
    /\ UNCHANGED <<query, top_k, patched, env, embedding, results, embedCalls,
                   providerCalls, searchCalls, indexCalls, embedAnswer, searchAnswer,
                   indexAnswer,
                   cleanVars, toolVars, procVars, indexVars,
                   embVars, concVars, startVars>>

\* The rest of the Embed stage once embed_query has answered with `gateway`.
EmbedStage(gateway) ==
    /\ stages' = Append(stages, "Embed")
    /\ embedCalls' = Append(embedCalls, PyStr(Strip(query.s)))
    /\ embedAnswer' = gateway
    /\ \E r \in {_create_query_embedding(gateway)} :
          IF r.ok
          THEN /\ embedding' = r.val
               /\ pc' = "search"
               /\ UNCHANGED <<outcome, failedStage>>
          ELSE /\ Fail("Embed", r.exc)
               /\ UNCHANGED embedding
    /\ UNCHANGED <<query, top_k, patched, env, results, searchCalls, indexCalls,
                   searchAnswer, indexAnswer, cleanVars, toolVars, procVars, indexVars,
                   embVars, concVars, startVars>>

\* The Embed stage through services.embedding_service.embed_query.
Embed ==
    /\ pc = "embed"
    /\ "embed_query" \notin patched
    /\ \E response \in ProviderResponses :
          LET text == PyStr(Strip(query.s))
          IN  /\ providerCalls' =
                    IF EmbedReachesProvider(text, env)
                    THEN Append(providerCalls, [model |-> env, input |-> Strip(text.s)])
                    ELSE providerCalls
              /\ \E gateway \in {embed_query(text, env, response)} : EmbedStage(gateway)

\* The Embed stage with embed_query replaced by a test double.
EmbedPatched ==
    /\ pc = "embed"
    /\ "embed_query" \in patched
    /\ \E gateway \in PatchedEmbedOutcomes : EmbedStage(gateway)
    /\ UNCHANGED providerCalls

\* The rest of the Search stage once query_cocktails has answered with `gateway`.
SearchStage(gateway) ==
    /\ stages' = Append(stages, "Search")
    /\ searchCalls' = Append(searchCalls, [top_k |-> top_k, vector |-> embedding])
    /\ searchAnswer' = gateway
    /\ \E r \in {_query_vector_database(gateway)} :
          IF r.ok
          THEN /\ results' = r.val
               /\ pc' = "process"
               /\ UNCHANGED <<outcome, failedStage>>
          ELSE /\ Fail("Search", r.exc)
               /\ UNCHANGED results
    /\ UNCHANGED <<query, top_k, patched, env, embedding, embedCalls, providerCalls,
                   embedAnswer, cleanVars, toolVars, procVars, indexVars,
                   embVars, concVars, startVars>>

\* The Search stage through services.pinecone_service.query_cocktails.
Search ==
    /\ pc = "search"
    /\ "query_cocktails" \notin patched
    /\ \E response \in IndexResponses :
          /\ indexCalls' =
                IF QueryReachesIndex(embedding)
                THEN Append(indexCalls, [top_k |-> EffectiveTopK(top_k),
                                         include_metadata |-> TRUE, vector |-> embedding])
                ELSE indexCalls
          /\ indexAnswer' = IF QueryReachesIndex(embedding) THEN response ELSE NotCalled
          /\ \E gateway \in {query_cocktails(top_k, embedding, response)} :
                SearchStage(gateway)

\* The Search stage with query_cocktails replaced by a test double.
SearchPatched ==
    /\ pc = "search"
    /\ "query_cocktails" \in patched
    /\ \E gateway \in PatchedSearchOutcomes : SearchStage(gateway)
    /\ UNCHANGED <<indexCalls, indexAnswer>>

\* The Sanitize stage (_process_query_results) and the return of its list.
Process ==
    /\ pc = "process"
    /\ \E r \in {_process_query_results(results)} :
          IF r.ok
          THEN /\ stages' = stages \o <<"Sanitize", "Return">>
               /\ outcome' = Returned(r.val)
               /\ pc' = "done"
               /\ UNCHANGED failedStage
          ELSE /\ stages' = Append(stages, "Sanitize")
               /\ Fail("Sanitize", r.exc)
    /\ UNCHANGED <<query, top_k, patched, env, embedding, results, embedCalls,
                   providerCalls, searchCalls, indexCalls, embedAnswer, searchAnswer,
                   indexAnswer,
                   cleanVars, toolVars, procVars, indexVars,
                   embVars, concVars, startVars>>

NextRag == Validate \/ Embed \/ EmbedPatched \/ Search \/ SearchPatched \/ Process

Spec == InitRag /\ [][NextRag]_vars

(***************************************************************************)
(* Properties of run_cocktail_rag, checked under Spec.                     *)
(***************************************************************************)
StageRan(stage) == \E i \in 1..Len(stages) : stages[i] = stage
IsPrefix(a, b) == Len(a) <= Len(b) /\ a = SubSeq(b, 1, Len(a))
\* The queries the validation is to refuse: not a string, empty, or only whitespace.
BlankOrNotString(q) == q.t # "str" \/ \A i \in 1..Len(q.s) : q.s[i] = " "
\* A list whose elements are all records with exactly the keys id, score, metadata.
IsRecordList(v) ==
    /\ v.t = "list"
    /\ \A i \in 1..Len(v.items) :
          /\ v.items[i].t = "dict"
          /\ [j \in 1..Len(v.items[i].kv) |-> v.items[i].kv[j].k] = <<KeyId, KeyScore, KeyMetadata>>
ValidationMessage == "Query must be a non-empty string"

\* C1: every invocation ends, and ends either returning a list of {id, score,
\* metadata} records after all five stages ran without a failure, or raising
\* RAGError; it never ends otherwise and no other exception type escapes.
C1_ListOrRAGError ==
    /\ pc # "done" => outcome = Pending /\ ENABLED NextRag
    /\ pc = "done" => outcome.kind \in {"return", "raise"}
    /\ outcome.kind = "return" =>
          /\ outcome.value # None /\ IsRecordList(outcome.value)
          /\ failedStage = "none" /\ stages = StageOrder
    /\ outcome.kind = "raise" => outcome.exc.type = "RAGError" /\ failedStage # "none"

\* C1 witness: an exception that is no RAGError (iterating matches = 5 raises
\* TypeError) reached the handlers and the call raised RAGError from it.
C1_Witness ==
    /\ pc = "done" /\ outcome.kind = "raise"
    /\ outcome.exc.type = "RAGError" /\ outcome.exc.cause = "TypeError"
    /\ failedStage = "Sanitize"

\* C2: a query that is empty, whitespace only, None or no string makes the call
\* raise the validation error, and no gateway, provider or index is called.
C2_InvalidQueryRejected ==
    BlankOrNotString(query) =>
        /\ embedCalls = <<>> /\ searchCalls = <<>>
        /\ providerCalls = <<>> /\ indexCalls = <<>>
        /\ pc \in {"validate", "done"}
        /\ pc = "done" => outcome = Raised(RAGError(ValidationMessage, "none"))

\* C2 witness: a whitespace-only query was refused.
C2_Witness ==
    /\ pc = "done" /\ query = PyStr(<<" ", " ">>)
    /\ outcome = Raised(RAGError(ValidationMessage, "none"))

\* C3: the stages run in the order Validate, Embed, Search, Sanitize, Return,
\* none twice and none skipped; embed_query is called only for a query that
\* passed validation, query_cocktails only after embed_query returned an
\* embedding, processing only after query_cocktails returned results, and a
\* failed stage is the last one.
C3_StageOrder ==
    /\ IsPrefix(stages, StageOrder)
    /\ Len(embedCalls) = (IF StageRan("Embed") THEN 1 ELSE 0)
    /\ Len(searchCalls) = (IF StageRan("Search") THEN 1 ELSE 0)
    /\ StageRan("Embed") => ~BlankOrNotString(query)
    /\ StageRan("Search") => embedAnswer # NotCalled /\ embedAnswer.ok /\ embedAnswer.val # None
    /\ StageRan("Sanitize") =>
          searchAnswer # NotCalled /\ searchAnswer.ok /\ searchAnswer.val # None
    /\ failedStage # "none" => pc = "done" /\ stages[Len(stages)] = failedStage
    /\ (pc = "done" /\ failedStage = "none") => stages = StageOrder

\* C3 witness: all five stages ran.
C3_Witness == pc = "done" /\ stages = StageOrder /\ outcome.kind = "return"

\* C4 as claimed, for the gateways of the services package: once validation
\* passed and the Embed stage ran the provider was called exactly once, and once
\* the Embed stage succeeded and the Search stage ran the index was called
\* exactly once.
C4_ProviderAndIndexExactlyOnce ==
    patched = {} =>
        /\ Len(providerCalls) <= 1 /\ Len(indexCalls) <= 1
        /\ StageRan("Embed") => Len(providerCalls) = 1
        /\ StageRan("Search") => Len(indexCalls) = 1

\* C4 amended: no gateway, provider or index is called more than once; each
\* gateway is called exactly once when its stage is reached; embed_query calls
\* the provider exactly once when the embedding model is configured and not at
\* all otherwise; query_cocktails calls the index exactly once when the vector
\* is not empty and not at all otherwise.
C4_NoRetry ==
    /\ Len(embedCalls) <= 1 /\ Len(providerCalls) <= 1
    /\ Len(searchCalls) <= 1 /\ Len(indexCalls) <= 1
    /\ StageRan("Embed") => Len(embedCalls) = 1
    /\ StageRan("Search") => Len(searchCalls) = 1
    /\ (StageRan("Embed") /\ "embed_query" \notin patched) =>
          Len(providerCalls) = (IF env # None /\ env.s # <<>> THEN 1 ELSE 0)
    /\ (StageRan("Search") /\ "query_cocktails" \notin patched) =>
          Len(indexCalls) = (IF embedding.t = "list" /\ embedding.items = <<>> THEN 0 ELSE 1)

\* C4 witness: an invocation through both gateways of the services package in
\* which the provider failed, and one in which the index was called once.
C4_Witness ==
    /\ pc = "done" /\ patched = {}
    /\ Len(providerCalls) = 1 /\ Len(indexCalls) = 1
    /\ failedStage = "Search" /\ ~searchAnswer.ok

\* C5 as claimed: when embed_query returns None or an empty vector, the call
\* fails at the Embed stage with RAGError and query_cocktails is not called.
C5_NoneOrEmptyEmbeddingFails ==
    (embedAnswer \in {Ret(None), Ret(EmptyList)}) =>
        /\ pc = "done" /\ failedStage = "Embed"
        /\ outcome.kind = "raise" /\ outcome.exc.type = "RAGError"
        /\ searchCalls = <<>>

\* C6: when query_cocktails returns None the call fails at the Search stage
\* with RAGError, processing is not run and nothing is returned.
C6_NoneResultsFail ==
    searchAnswer = Ret(None) =>
        /\ pc = "done" /\ failedStage = "Search"
        /\ outcome.kind = "raise" /\ outcome.exc.type = "RAGError"
        /\ ~StageRan("Sanitize") /\ results = None

\* C6 witness: query_cocktails answered None for a vector that is not empty.
C6_Witness ==
    /\ searchAnswer = Ret(None) /\ pc = "done"
    /\ embedding = PyList(<<PyFloat(10), PyFloat(20)>>)
    /\ outcome.kind = "raise"

(***************************************************************************)
(* rag_cocktails(query): one invocation of the tool of cocktail_server.py. *)
(* Its embed_query comes from service.embedding_service and may answer     *)
(* anything; its query_cocktails (service/pinecone_service.py) is a bare   *)
(* index.query(top_k, include_metadata=True, vector).                      *)
(***************************************************************************)
\* What embed_query of the tool may do.
ToolEmbedOutcomes == PatchedEmbedOutcomes

InitTool ==
    /\ tpc = "start"
    /\ tquery \in Queries
    /\ tembedding = None /\ toutcome = Pending /\ tfailure = "none" /\ tindexCalls = <<>>
    /\ RagIdle /\ CleanIdle /\ ProcIdle /\ IndexIdle
    /\ EmbedIdle /\ ConcIdle /\ StartIdle

\* A handler that lets the exception out of the tool.
LetEscape(exc) == Raised(exc)

\* The handler "except Exception: return []" around the whole body.
CatchAll(exc) == Returned(EmptyList)

\* A "return []" after logging an error.
ReturnEmpty == Returned(EmptyList)

\* The two imports, then the test "not query or not isinstance(query, str)".
ToolStart ==
    /\ tpc = "start"
    /\ \E imported \in BOOLEAN :
          IF ~imported
          THEN /\ toutcome' = CatchAll(Exception("ImportError", "No module named", "none"))
               /\ tfailure' = "import" /\ tpc' = "done"
          ELSE IF ~Truthy(tquery) \/ tquery.t # "str"
          THEN /\ toutcome' = ReturnEmpty
               /\ tfailure' = "validation" /\ tpc' = "done"
          ELSE tpc' = "embed" /\ UNCHANGED <<toutcome, tfailure>>
    /\ UNCHANGED <<tquery, tembedding, tindexCalls, ragVars, cleanVars, procVars, indexVars,
                   embVars, concVars, startVars>>

\* embedding = embed_query(query=query), its None test and len(embedding).
ToolEmbed ==
    /\ tpc = "embed"
    /\ \E gateway \in ToolEmbedOutcomes :
          IF ~gateway.ok
          THEN /\ toutcome' = CatchAll(gateway.exc)
               /\ tfailure' = "embedding" /\ tpc' = "done" /\ UNCHANGED tembedding
          ELSE IF gateway.val = None
          THEN /\ toutcome' = ReturnEmpty
               /\ tfailure' = "embedding" /\ tpc' = "done" /\ UNCHANGED tembedding
          ELSE IF ~HasLen(gateway.val)
          THEN /\ toutcome' = CatchAll(TypeError("object has no len()"))
               /\ tfailure' = "embedding" /\ tpc' = "done" /\ UNCHANGED tembedding
          ELSE /\ tembedding' = gateway.val
               /\ tpc' = "search" /\ UNCHANGED <<toutcome, tfailure>>
    /\ UNCHANGED <<tquery, tindexCalls, ragVars, cleanVars, procVars, indexVars,
                   embVars, concVars, startVars>>

\* results = query_cocktails(top_k=5, vector=embedding) and everything after it.
ToolSearch ==
    /\ tpc = "search"
    /\ tindexCalls' = Append(tindexCalls, [top_k |-> 5, include_metadata |-> TRUE,
                                           vector |-> tembedding])
    /\ \E response \in IndexResponses :
          IF ~response.ok
          THEN toutcome' = CatchAll(response.exc) /\ tfailure' = "search"
          ELSE \E r \in {ToolResults(response.val)} :
                  IF r.ok THEN toutcome' = Returned(r.val) /\ UNCHANGED tfailure
                  ELSE /\ toutcome' = (IF r.failure \in {"search", "format", "serialization"}
                                       THEN ReturnEmpty
                                       ELSE CatchAll(TypeError(r.failure)))
                       /\ tfailure' = r.failure
    /\ tpc' = "done"
    /\ UNCHANGED <<tquery, tembedding, ragVars, cleanVars, procVars, indexVars,
                   embVars, concVars, startVars>>

NextTool == ToolStart \/ ToolEmbed \/ ToolSearch

SpecTool == InitTool /\ [][NextTool]_vars

\* C7: rag_cocktails always ends by returning a list, never by raising; after
\* any failure (import, validation, embedding, search, response format, length
\* of the matches, JSON serialization, conversion) the list is empty; every element of a returned
\* list is an {id, score, metadata} record.
C7_ToolNeverRaises ==
    /\ tpc # "done" => toutcome = Pending /\ ENABLED NextTool
    /\ tpc = "done" =>
          /\ toutcome.kind = "return"
          /\ toutcome.value # None /\ IsRecordList(toutcome.value)
          /\ tfailure # "none" => toutcome.value = EmptyList

\* C7 witness: an exception inside the tool (dict() of a metadata that is no
\* mapping) ended in an empty list.
C7_Witness == tpc = "done" /\ tfailure = "conversion" /\ toutcome = Returned(EmptyList)

\* The metadata of the records the tool returned.
ToolMetadata ==
    {DictGet(toutcome.value.items[i], KeyMetadata) : i \in 1..Len(toutcome.value.items)}

\* C28 as claimed: no None remains at any depth of the metadata of a record
\* the tool returns, inside mappings in lists and lists in lists included.
C28_NoNoneInToolMetadata ==
    (tpc = "done" /\ toutcome.kind = "return") => \A metadata \in ToolMetadata : ~HasNone(metadata)

(***************************************************************************)
(* The sanitizer called on its own: _clean_metadata_dict(data).            *)
(***************************************************************************)
InitClean ==
    /\ cpc = "call"
    /\ data \in Values(MaxDepth)
    /\ cleaned = None /\ recleaned = None
    /\ RagIdle /\ ToolIdle /\ ProcIdle /\ IndexIdle
    /\ EmbedIdle /\ ConcIdle /\ StartIdle

CleanMetadata ==
    /\ cpc = "call"
    /\ cleaned' = _clean_metadata_dict(data)
    /\ cpc' = "done"
    /\ UNCHANGED <<data, recleaned, ragVars, toolVars, procVars, indexVars,
                   embVars, concVars, startVars>>

\* _clean_metadata_dict called on what the first call returned.
CleanAgain ==
    /\ cpc = "done"
    /\ recleaned' = _clean_metadata_dict(cleaned)
    /\ cpc' = "again"
    /\ UNCHANGED <<data, cleaned, ragVars, toolVars, procVars, indexVars,
                   embVars, concVars, startVars>>

NextClean == CleanMetadata \/ CleanAgain

SpecClean == InitClean /\ [][NextClean]_vars

\* C8: the sanitizer's output holds no None at any nesting depth.
C8_NoNoneInOutput == cpc = "done" => ~HasNone(cleaned)

\* C8 witness: a mapping with a None inside a nested sequence was cleaned, and
\* the sequence kept its other item.
C8_Witness ==
    /\ cpc = "done" /\ IsDict(data)
    /\ \E c \in Children(data) : IsSeq(c) /\ None \in Children(c)
    /\ \E c \in Children(cleaned) : IsSeq(c) /\ c.items # <<>>

\* C9 as claimed: no empty mapping is a child of any container of the output.
C9_NoEmptyMappingChild == cpc = "done" => ~HasEmptyDictChild(cleaned)

\* C10 as claimed: no empty sequence is a child of any container of the output.
C10_NoEmptySequenceChild == cpc = "done" => ~HasEmptySeqChild(cleaned)

\* C11: the sanitizer is idempotent: called on its own result it returns that
\* result unchanged.
C11_Idempotent == cpc = "again" => recleaned = cleaned

\* C11 witness: the first call changed its argument (it dropped a None, turned
\* a tuple into a list or a key into a string) and the second call changed nothing.
C11_Witness ==
    /\ cpc = "again" /\ IsDict(data) /\ cleaned # data /\ cleaned # EmptyDict
    /\ \E c \in Children(cleaned) : IsSeq(c) \/ IsDict(c)
    /\ recleaned = cleaned

(***************************************************************************)
(* _process_query_results(results) called on its own, with the code of     *)
(* _process_single_match or with a test double in its place.               *)
(***************************************************************************)
MaxMatches == 2

ScalarMeta == MatchDict(PyStr(<<"c", "5">>), PyFloat(20), PyInt(5))
RawMatches ==
    {Cocktail1, Cocktail2, BadScore, AllNone, NoFields, ListMeta, ScalarMeta,
     PyStr(<<"m", "1">>)}
RawMatchLists == UNION {[1..n -> RawMatches] : n \in 0..MaxMatches}

ProcessInputs ==
    {PyObject("QueryResponse", <<[a |-> "matches", v |-> PyList(m)]>>) : m \in RawMatchLists}
    \cup {PyDict(<<[k |-> KeyMatches, v |-> PyList(m)]>>) : m \in RawMatchLists}
    \cup {PyDict(<<[k |-> KeyMatches, v |-> PyTuple(m)]>>) : m \in MatchLists}
    \cup RawResults

GoodRecord ==
    MatchRecord(PyStr(<<"c", "1">>), PyFloat(95), PyDict(<<[k |-> PyStr(Name), v |-> PyStr(Mojito)]>>))
OpaqueRecord == MatchRecord(PyStr(<<"c", "9">>), PyFloat(10), PyObject("Obj", <<>>))
InvalidMatch == Fault("Exception", "Invalid match")

SideEffects ==
    { <<Ret(GoodRecord), InvalidMatch>>, <<InvalidMatch, Ret(GoodRecord)>>,
      <<Ret(OpaqueRecord), Ret(GoodRecord)>> }

InitProcess ==
    /\ ppc = "call"
    /\ presults \in ProcessInputs
    /\ pdouble \in {Unpatched} \cup {SideEffect(outcomes) : outcomes \in SideEffects}
    /\ pextract = NotCalled /\ psingles = <<>> /\ pout = NotCalled
    /\ RagIdle /\ CleanIdle /\ ToolIdle /\ IndexIdle
    /\ EmbedIdle /\ ConcIdle /\ StartIdle

\* The matches the loop of _process_query_results goes through: none when
\* the extraction raised, the matches are falsy or cannot be iterated.
LoopItems(extracted) ==
    IF extracted.ok /\ Truthy(extracted.val) /\ Iterate(extracted.val).ok
    THEN Iterate(extracted.val).val ELSE <<>>

ProcessResults ==
    /\ ppc = "call"
    /\ \E extracted \in {_extract_matches(presults)} :
          /\ pextract' = extracted
          /\ \E items \in {LoopItems(extracted)} :
                psingles' = [i \in 1..Len(items) |-> CallSingle(pdouble, items[i], i)]
    /\ pout' = (IF pdouble.patched THEN ProcessPatched(presults, pdouble)
                ELSE _process_query_results(presults))
    /\ ppc' = "done"
    /\ UNCHANGED <<presults, pdouble, ragVars, cleanVars, toolVars, indexVars,
                   embVars, concVars, startVars>>

NextProcess == ProcessResults

SpecProcess == InitProcess /\ [][NextProcess]_vars

\* What the properties of a processed batch speak of.
OkValues(outcomes) ==
    LET ok == SelectSeq(outcomes, LAMBDA o : o.ok) IN [i \in 1..Len(ok) |-> ok[i].val]
\* A value json.dumps can encode: None, scalars, lists and tuples of such
\* values, mappings with scalar keys.
RECURSIVE Encodable(_), JsonSafe(_)
Encodable(v) ==
    \/ v.t \in {"none", "str", "int", "float", "bool"}
    \/ IsSeq(v) /\ \A c \in Children(v) : Encodable(c)
    \/ IsDict(v) /\ \A i \in 1..Len(v.kv) :
                       v.kv[i].k.t \in {"none", "str", "int", "float", "bool"} /\ Encodable(v.kv[i].v)
\* A value made only of strings, numbers, booleans, lists and string-keyed mappings.
JsonSafe(v) ==
    \/ v.t \in {"str", "int", "float", "bool"}
    \/ v.t = "list" /\ \A c \in Children(v) : JsonSafe(c)
    \/ IsDict(v) /\ \A i \in 1..Len(v.kv) : v.kv[i].k.t = "str" /\ JsonSafe(v.kv[i].v)
\* The field of a raw match, by attribute or by key; None when it has none.
RawField(match, attr, key) ==
    IF match.t = "obj" THEN (IF HasAttr(match, attr) THEN GetAttr(match, attr) ELSE None)
    ELSE IF IsDict(match) THEN DictGet(match, key)
    ELSE None
SerializationMessage == "Failed to serialize result to JSON: Object is not JSON serializable"

\* C12: a match whose processing raises is dropped alone: when the loop ran and
\* the records made are encodable, the call returns, every record made is in
\* the list, and the list is as long as the number of calls that succeeded.
C12_PerMatchIsolation ==
    (ppc = "done" /\ psingles # <<>> /\ \A r \in Children(PyList(OkValues(psingles))) : Encodable(r))
    => /\ pout.ok
       /\ Len(pout.val.items) = Cardinality({i \in 1..Len(psingles) : psingles[i].ok})
       /\ \A i \in 1..Len(psingles) :
             psingles[i].ok => \E j \in 1..Len(pout.val.items) : pout.val.items[j] = psingles[i].val

\* C12 witness: of two matches the one whose score is no number was dropped and
\* the other returned.
C12_Witness ==
    /\ ppc = "done" /\ ~pdouble.patched
    /\ Len(psingles) = 2 /\ psingles[1].ok /\ ~psingles[2].ok
    /\ pout.ok /\ pout.val.items = <<psingles[1].val>>

\* C13: the list returned is the records of the matches whose processing
\* succeeded, in the order of the search response; nothing is re-sorted,
\* repeated or added.
C13_OrderPreserved ==
    (ppc = "done" /\ pout.ok) => pout.val.items = OkValues(psingles)

\* C13 witness: two records with different ids came back in the order of their matches.
C13_Witness ==
    /\ ppc = "done" /\ ~pdouble.patched /\ pout.ok
    /\ Len(psingles) = 2 /\ Len(pout.val.items) = 2
    /\ DictGet(pout.val.items[1], KeyId) # DictGet(pout.val.items[2], KeyId)

\* C14: _process_single_match makes of an attribute-style or key-value match a
\* record with exactly the keys id, score, metadata; a field that is absent or
\* None gives id = '', score = 0.0, metadata = {}; a present id is str(id), a
\* present score is float(score).
C14_RecordDefaults ==
    (ppc = "done" /\ ~pdouble.patched) =>
        \A i \in 1..Len(psingles) :
            psingles[i].ok =>
                LET match == LoopItems(pextract)[i]
                    record == psingles[i].val
                    id == RawField(match, "id", KeyId)
                    score == RawField(match, "score", KeyScore)
                    metadata == RawField(match, "metadata", KeyMetadata)
                IN  /\ IsDict(record)
                    /\ [j \in 1..Len(record.kv) |-> record.kv[j].k] = <<KeyId, KeyScore, KeyMetadata>>
                    /\ DictGet(record, KeyId).t = "str"
                    /\ DictGet(record, KeyId) = (IF id = None THEN PyStr(<<>>) ELSE PyStr(str(id)))
                    /\ DictGet(record, KeyScore).t = "float"
                    /\ DictGet(record, KeyScore) = (IF score = None THEN PyFloat(0) ELSE FloatOf(score).val)
                    /\ metadata = None => DictGet(record, KeyMetadata) = EmptyDict

\* C14 witness: a key-value match with an int id and a text score, and an
\* attribute-style match with every field None, were both made into records.
C14_Witness ==
    /\ ppc = "done" /\ ~pdouble.patched /\ LoopItems(pextract) = <<Cocktail2, AllNone>>
    /\ psingles[1].ok /\ psingles[2].ok
    /\ psingles[2].val = MatchRecord(PyStr(<<>>), PyFloat(0), EmptyDict)

\* C15 as claimed: the metadata of every record returned is a mapping from
\* strings to JSON-safe values, whatever the raw match carried.
C15_MetadataIsMapping ==
    (ppc = "done" /\ ~pdouble.patched /\ pout.ok) =>
        \A record \in Children(pout.val) :
            IsDict(DictGet(record, KeyMetadata)) /\ JsonSafe(DictGet(record, KeyMetadata))

\* C16: a response with a matches attribute, or a mapping with a "matches"
\* key, is accepted, and matches that are None or empty give an empty list;
\* any other response raises RAGError "Unexpected results format" naming the
\* type of the response, and no records are returned.
C16_TwoShapesOrFormatError ==
    ppc = "done" =>
        IF presults.t = "obj" /\ HasAttr(presults, "matches")
        THEN /\ pextract.ok
             /\ GetAttr(presults, "matches") \in {None, EmptyList}
                    => pextract.val = EmptyList /\ pout = Ret(EmptyList)
        ELSE IF IsDict(presults) /\ DictHas(presults, KeyMatches)
        THEN /\ pextract.ok
             /\ DictGet(presults, KeyMatches) \in {None, EmptyList}
                    => pextract.val = EmptyList /\ pout = Ret(EmptyList)
        ELSE /\ ~pextract.ok /\ ~pout.ok /\ pout = pextract /\ psingles = <<>>
             /\ pout.exc.type = "RAGError"
             /\ pout.exc.msg = "Unexpected results format: <class '" \o TypeName(presults) \o "'>"

\* C16 witness: a bare string as response ended in the format error.
C16_Witness ==
    /\ ppc = "done" /\ presults.t = "str"
    /\ ~pout.ok /\ pout.exc.msg = "Unexpected results format: <class 'str'>"

\* C17: a list returned by _process_query_results can be encoded as JSON, and
\* with the code of _process_single_match it is made only of strings, numbers,
\* booleans, lists and string-keyed mappings; when a record made cannot be
\* encoded the call raises the serialization error and returns nothing.
C17_SerializableOrError ==
    ppc = "done" =>
        /\ pout.ok => /\ Encodable(pout.val)
                      /\ ~pdouble.patched => JsonSafe(pout.val)
        /\ (\E r \in Children(PyList(OkValues(psingles))) : ~Encodable(r))
              => ~pout.ok /\ pout.exc.type = "RAGError" /\ pout.exc.msg = SerializationMessage

\* C17 witness: a record that json.dumps cannot encode made the whole call
\* fail, though another record of the batch was fine.
C17_Witness ==
    /\ ppc = "done" /\ Len(psingles) = 2
    /\ psingles[1] = Ret(OpaqueRecord) /\ psingles[2] = Ret(GoodRecord)
    /\ ~pout.ok /\ pout.exc.msg = SerializationMessage

\* C18: with a non-empty vector query_cocktails calls index.query exactly once,
\* with include_metadata = True, the vector, and top_k 5 when the given top_k
\* is <= 0, 1000 when it is > 1000, the given top_k otherwise, so a top_k in
\* 1..1000; a top_k out of range is no error: what the index answers is returned.
C18_TopKClamped ==
    (StageRan("Search") /\ "query_cocktails" \notin patched /\ Truthy(embedding)) =>
        /\ Len(indexCalls) = 1
        /\ indexCalls[1].include_metadata = TRUE
        /\ indexCalls[1].vector = embedding
        /\ indexCalls[1].top_k = (IF top_k <= 0 THEN 5 ELSE IF top_k > 1000 THEN 1000 ELSE top_k)
        /\ indexCalls[1].top_k \in 1..1000
        /\ (indexAnswer.ok /\ (HasAttr(indexAnswer.val, "matches") =>
                                  GetAttr(indexAnswer.val, "matches").t \in {"none", "list"}))
              => searchAnswer = indexAnswer

\* C18 witness: a top_k above the maximum was sent as 1000 and the answer of
\* the index came back.
C18_Witness ==
    /\ StageRan("Search") /\ "query_cocktails" \notin patched
    /\ top_k = 1001 /\ Len(indexCalls) = 1 /\ indexCalls[1].top_k = 1000
    /\ searchAnswer.ok /\ searchAnswer.val # None /\ searchAnswer = indexAnswer

\* C19: with an empty vector, whatever top_k is, query_cocktails returns None
\* without raising and index.query is not called.
C19_EmptyVectorShortCircuits ==
    (StageRan("Search") /\ "query_cocktails" \notin patched /\ ~Truthy(embedding)) =>
        /\ searchAnswer = Ret(None)
        /\ indexCalls = <<>> /\ indexAnswer = NotCalled

\* C19 witness: query_cocktails was called with [] and an out-of-range top_k.
C19_Witness ==
    /\ StageRan("Search") /\ "query_cocktails" \notin patched
    /\ embedding = EmptyList /\ top_k = 1001
    /\ searchCalls = <<[top_k |-> 1001, vector |-> EmptyList]>>
    /\ searchAnswer = Ret(None) /\ indexCalls = <<>>

(***************************************************************************)
(* services/pinecone_service.py: the operations on the vector index. A     *)
(* catalog item is [id, valid], valid saying whether _is_valid_cocktail /  *)
(* _is_valid_ingredient accepts it; `embeddings` is the set of the ids     *)
(* that have a usable embedding; a vector is [kind, id].                   *)
(***************************************************************************)
batch_size == 100
MaxFullBatches == 2

\* _create_cocktail_vectors_to_upsert / _create_ingredient_vectors_to_upsert:
\* one vector per valid item that has an embedding, in the order of the items.
CreateVectorsToUpsert(kind, items, embeddings) ==
    LET kept == SelectSeq(items, LAMBDA item : item.valid /\ item.id \in embeddings)
    IN  [i \in 1..Len(kept) |-> [kind |-> kind, id |-> kept[i].id]]

\* A slice with no upper end: vectors[i:].
BatchToTheEnd(vectors, i) == SubSeq(vectors, i + 1, Len(vectors))

\* vectors[i:i + batch_size], i counted from 0.
Batch(vectors, i) ==
    SubSeq(vectors, i + 1, IF i + batch_size < Len(vectors) THEN i + batch_size ELSE Len(vectors))

\* A handler that raises e again as it is.
RaiseAgain(prefix, e) == e

\* raise PineconeError(f"{prefix}{e}") from e
PineconeErrorFrom(prefix, e) == PineconeError(prefix \o e.msg, e.type)

\* What "except Exception as e: raise PineconeError(...) from e" makes of the
\* exceptions raised so far: one more, caused by the last.
ChainFrom(chain, prefix) == Append(chain, PineconeErrorFrom(prefix, chain[Len(chain)]))

IsWrapper(op) == op \in {"upsert_cocktail_embeddings", "upsert_ingredient_embeddings"}
WrapperPrefix(op) ==
    IF op = "upsert_cocktail_embeddings" THEN "Cocktail embedding upsert failed: "
    ELSE "Ingredient embedding upsert failed: "
WrapperKind(op) == IF op = "upsert_cocktail_embeddings" THEN "cocktail" ELSE "ingredient"

\* The arguments drawn for each operation.
ProviderFault == Exception("PineconeApiException", "index unavailable", "none")
VectorCounts == {0, 1, batch_size, batch_size + 1, MaxFullBatches * batch_size + 1}
Catalog(n, firstValid) == [i \in 1..n |-> [id |-> i, valid |-> (i > 1 \/ firstValid)]]
QueryVector == PyList(<<PyFloat(10), PyFloat(20)>>)
IndexOps ==
    {"query_cocktails", "_upsert_vectors", "upsert_cocktail_embeddings",
     "upsert_ingredient_embeddings", "clear_vectorspace", "get_num_vectors"}
IndexArgs(op) ==
    IF op = "_upsert_vectors"
    THEN {[vectors |-> [i \in 1..n |-> [kind |-> "cocktail", id |-> i]]] : n \in VectorCounts}
    ELSE IF IsWrapper(op)
    THEN {[items |-> Catalog(n, firstValid), embeddings |-> e] :
             n \in VectorCounts, firstValid \in BOOLEAN, e \in {{}, 1..(MaxFullBatches * batch_size + 1)}}
    ELSE IF op = "query_cocktails"
    THEN {[top_k |-> k, vector |-> v] : k \in TopKs, v \in {EmptyList, QueryVector}}
    ELSE {[none |-> TRUE]}

KeyTotal == PyStr(<<"t", "o", "t", "a", "l", "_", "v", "e", "c", "t", "o", "r", "_", "c", "o", "u", "n", "t">>)
\* What index.describe_index_stats may do when the index holds n vectors.
StatsResponses(n) ==
    { Ret(PyDict(<<[k |-> KeyTotal, v |-> PyInt(n)]>>)), Ret(EmptyDict), Ret(None),
      Raise(ProviderFault) }

InitIndex ==
    /\ ipc = "call"
    /\ iop \in IndexOps
    /\ iarg \in UNION {IndexArgs(op) : op \in IndexOps}
    /\ iarg \in IndexArgs(iop)
    /\ istored \in {0, 7}
    /\ ivectors = <<>> /\ inext = 0 /\ icalls = <<>> /\ ichain = <<>> /\ iout = Pending
    /\ RagIdle /\ CleanIdle /\ ToolIdle /\ ProcIdle
    /\ EmbedIdle /\ ConcIdle /\ StartIdle

\* The operation ends by raising the last exception of the chain.
RaiseChain(chain) ==
    /\ ichain' = chain
    /\ iout' = Raised(chain[Len(chain)])
    /\ ipc' = "done"

\* query_cocktails(top_k, vector).
QueryCocktails ==
    /\ ipc = "call" /\ iop = "query_cocktails"
    /\ \E response \in IndexResponses :
          /\ icalls' = IF QueryReachesIndex(iarg.vector)
                       THEN <<[method |-> "query", top_k |-> EffectiveTopK(iarg.top_k),
                               ok |-> response.ok]>>
                       ELSE <<>>
          /\ \E r \in {query_cocktails(iarg.top_k, iarg.vector, response)} :
                IF r.ok THEN iout' = Returned(r.val) /\ ipc' = "done" /\ UNCHANGED ichain
                ELSE IF ~response.ok THEN RaiseChain(ChainFrom(<<response.exc>>, "Cocktail query failed: "))
                ELSE RaiseChain(ChainFrom(<<TypeError("object has no len()")>>, "Cocktail query failed: "))
    /\ UNCHANGED <<iop, iarg, ivectors, inext, istored, ragVars, cleanVars, toolVars, procVars,
                   embVars, concVars, startVars>>

\* clear_vectorspace().
ClearVectorspace ==
    /\ ipc = "call" /\ iop = "clear_vectorspace"
    /\ \E response \in {Ret(None), Raise(ProviderFault)} :
          /\ icalls' = <<[method |-> "delete", delete_all |-> TRUE, ok |-> response.ok]>>
          /\ IF response.ok
             THEN istored' = 0 /\ iout' = Returned(None) /\ ipc' = "done" /\ UNCHANGED ichain
             ELSE RaiseChain(ChainFrom(<<response.exc>>, "Vector space clear failed: "))
                  /\ UNCHANGED istored
    /\ UNCHANGED <<iop, iarg, ivectors, inext, ragVars, cleanVars, toolVars, procVars,
                   embVars, concVars, startVars>>

\* get_num_vectors().
GetNumVectors ==
    /\ ipc = "call" /\ iop = "get_num_vectors"
    /\ \E response \in StatsResponses(istored) :
          /\ icalls' = <<[method |-> "describe_index_stats", ok |-> response.ok]>>
          /\ IF ~response.ok
             THEN RaiseChain(ChainFrom(<<response.exc>>, "Failed to get vector count: "))
             ELSE IF ~IsDict(response.val)
             THEN RaiseChain(ChainFrom(<<Exception("AttributeError", "object has no attribute 'get'", "none")>>,
                                       "Failed to get vector count: "))
             ELSE /\ iout' = Returned(IF DictHas(response.val, KeyTotal)
                                      THEN DictGet(response.val, KeyTotal) ELSE PyInt(0))
                  /\ ipc' = "done" /\ UNCHANGED ichain
    /\ UNCHANGED <<iop, iarg, ivectors, inext, istored, ragVars, cleanVars, toolVars, procVars,
                   embVars, concVars, startVars>>

\* _upsert_vectors(vectors), or one of the wrappers, up to the first batch:
\* the early returns and the vectors to send.
UpsertStart ==
    /\ ipc = "call" /\ (iop = "_upsert_vectors" \/ IsWrapper(iop))
    /\ \E vectors \in {IF IsWrapper(iop)
                       THEN (IF iarg.items = <<>> \/ iarg.embeddings = {} THEN <<>>
                             ELSE CreateVectorsToUpsert(WrapperKind(iop), iarg.items, iarg.embeddings))
                       ELSE iarg.vectors} :
          IF vectors = <<>>
          THEN iout' = Returned(None) /\ ipc' = "done" /\ UNCHANGED ivectors
          ELSE ivectors' = vectors /\ ipc' = "upsert" /\ UNCHANGED iout
    /\ UNCHANGED <<iop, iarg, inext, icalls, istored, ichain, ragVars, cleanVars, toolVars,
                   procVars,
                   embVars, concVars, startVars>>

\* A loop that undoes the batches it sent when one of them fails.
UpsertBatchRollingBack ==
    /\ ipc = "upsert"
    /\ \E response \in {Ret(None), Raise(ProviderFault)} :
          /\ icalls' = Append(icalls, [method |-> "upsert", vectors |-> Batch(ivectors, inext),
                                       ok |-> response.ok])
          /\ IF response.ok
             THEN /\ istored' = istored + Len(Batch(ivectors, inext))
                  /\ inext' = inext + batch_size
                  /\ IF inext + batch_size < Len(ivectors)
                     THEN UNCHANGED <<ipc, iout>>
                     ELSE iout' = Returned(None) /\ ipc' = "done"
                  /\ UNCHANGED ichain
             ELSE /\ RaiseChain(IF IsWrapper(iop)
                                THEN ChainFrom(ChainFrom(<<response.exc>>, "Vector upsert failed: "),
                                               WrapperPrefix(iop))
                                ELSE ChainFrom(<<response.exc>>, "Vector upsert failed: "))
                  /\ istored' = istored - inext
                  /\ UNCHANGED inext
    /\ UNCHANGED <<iop, iarg, ivectors, ragVars, cleanVars, toolVars, procVars,
                   embVars, concVars, startVars>>

\* One pass of the loop of _upsert_vectors: index.upsert(vectors=batch).
UpsertBatch ==
    /\ ipc = "upsert"
    /\ \E response \in {Ret(None), Raise(ProviderFault)} :
          /\ icalls' = Append(icalls, [method |-> "upsert", vectors |-> Batch(ivectors, inext),
                                       ok |-> response.ok])
          /\ IF response.ok
             THEN /\ istored' = istored + Len(Batch(ivectors, inext))
                  /\ inext' = inext + batch_size
                  /\ IF inext + batch_size < Len(ivectors)
                     THEN UNCHANGED <<ipc, iout>>
                     ELSE iout' = Returned(None) /\ ipc' = "done"
                  /\ UNCHANGED ichain
             ELSE /\ RaiseChain(IF IsWrapper(iop)
                                THEN ChainFrom(ChainFrom(<<response.exc>>, "Vector upsert failed: "),
                                               WrapperPrefix(iop))
                                ELSE ChainFrom(<<response.exc>>, "Vector upsert failed: "))
                  /\ UNCHANGED <<inext, istored>>
    /\ UNCHANGED <<iop, iarg, ivectors, ragVars, cleanVars, toolVars, procVars,
                   embVars, concVars, startVars>>

NextIndex == QueryCocktails \/ ClearVectorspace \/ GetNumVectors \/ UpsertStart \/ UpsertBatch

SpecIndex == InitIndex /\ [][NextIndex]_vars

\* The provider raised in the last call made to the index.
ProviderFailed == icalls # <<>> /\ ~icalls[Len(icalls)].ok

\* C20 as claimed: a fault of the provider in any of the operations, the upsert
\* wrappers included, reaches the caller as a PineconeError whose cause is the
\* provider's exception.
C20_ProviderFaultIsDirectCause ==
    (ipc = "done" /\ ProviderFailed) =>
        /\ iout.kind = "raise" /\ iout.exc.type = "PineconeError"
        /\ iout.exc.cause = ichain[1].type

\* C20 amended: a fault of the provider reaches the caller as a PineconeError
\* and no other type; from query_cocktails, _upsert_vectors, clear_vectorspace
\* and get_num_vectors its cause is the provider's exception; from the two
\* wrappers its cause is the PineconeError of _upsert_vectors, whose cause is
\* the provider's exception; every message ends with the provider's message.
C20_ProviderFaultWrapped ==
    (ipc = "done" /\ ProviderFailed) =>
        /\ iout.kind = "raise" /\ iout.exc = ichain[Len(ichain)]
        /\ iout.exc.type = "PineconeError"
        /\ ichain[1].type # "PineconeError"
        /\ Len(ichain) = (IF IsWrapper(iop) THEN 3 ELSE 2)
        /\ \A k \in 2..Len(ichain) :
              /\ ichain[k].type = "PineconeError"
              /\ ichain[k].cause = ichain[k - 1].type
        /\ iout.exc.cause = (IF IsWrapper(iop) THEN "PineconeError" ELSE ichain[1].type)
        /\ iout.exc.msg =
              (CASE iop = "query_cocktails" -> "Cocktail query failed: "
                 [] iop = "_upsert_vectors" -> "Vector upsert failed: "
                 [] iop = "upsert_cocktail_embeddings" ->
                        "Cocktail embedding upsert failed: Vector upsert failed: "
                 [] iop = "upsert_ingredient_embeddings" ->
                        "Ingredient embedding upsert failed: Vector upsert failed: "
                 [] iop = "clear_vectorspace" -> "Vector space clear failed: "
                 [] iop = "get_num_vectors" -> "Failed to get vector count: ") \o ichain[1].msg

\* C20 witness: the provider failed on the second batch of a wrapper's upsert
\* and the caller got the PineconeError of the wrapper.
C20_Witness ==
    /\ ipc = "done" /\ iop = "upsert_cocktail_embeddings"
    /\ Len(icalls) = 2 /\ icalls[1].ok /\ ~icalls[2].ok
    /\ iout.kind = "raise" /\ iout.exc.type = "PineconeError" /\ Len(ichain) = 3

\* ---------------------------------------------------------------------------
\* The batched upsert.

IsUpsert(op) == op = "_upsert_vectors" \/ IsWrapper(op)

\* The vectors the operation has to send: the argument of _upsert_vectors, or
\* what a wrapper builds from its items and embeddings.
PreparedVectors ==
    IF ~IsWrapper(iop) THEN iarg.vectors
    ELSE IF iarg.items = <<>> \/ iarg.embeddings = {} THEN <<>>
    ELSE CreateVectorsToUpsert(WrapperKind(iop), iarg.items, iarg.embeddings)

\* The batches of the calls, one after the other.
RECURSIVE ConcatBatches(_)
ConcatBatches(calls) ==
    IF calls = <<>> THEN <<>> ELSE calls[1].vectors \o ConcatBatches(Tail(calls))

\* C21: when the provider does not fail, an upsert of n prepared vectors ends
\* without an error after exactly ceil(n / 100) calls of index.upsert, each
\* with 1 to 100 vectors, and the batches in call order concatenate to the
\* prepared list; with nothing to send (n = 0) no call is made.
C21_BatchesPartitionVectors ==
    (ipc = "done" /\ IsUpsert(iop) /\ \A k \in 1..Len(icalls) : icalls[k].ok) =>
        /\ iout = Returned(None)
        /\ Len(icalls) = (Len(PreparedVectors) + batch_size - 1) \div batch_size
        /\ \A k \in 1..Len(icalls) :
              /\ icalls[k].method = "upsert"
              /\ Len(icalls[k].vectors) \in 1..batch_size
        /\ ConcatBatches(icalls) = PreparedVectors
        /\ (PreparedVectors = <<>> => icalls = <<>>)

\* C21 witness: 101 vectors went out in two accepted batches of 100 and 1.
C21_Witness ==
    /\ ipc = "done" /\ iop = "_upsert_vectors" /\ Len(iarg.vectors) = batch_size + 1
    /\ iout = Returned(None) /\ Len(icalls) = 2 /\ icalls[1].ok /\ icalls[2].ok
    /\ Len(icalls[1].vectors) = batch_size /\ Len(icalls[2].vectors) = 1

\* C21 witness of the empty case: a wrapper whose items are all invalid or
\* without embedding returned without a call.
C21_WitnessNothingToSend ==
    /\ ipc = "done" /\ IsWrapper(iop) /\ iarg.items # <<>> /\ iarg.embeddings # {}
    /\ PreparedVectors = <<>> /\ icalls = <<>> /\ iout = Returned(None)

\* C22: each pass of the loop sends the next batch and nothing else; an
\* accepted batch is added to what the index holds; when the provider fails on
\* batch k, every batch before it was accepted, the index keeps them (nothing
\* is taken back), the operation ends by raising a PineconeError whose message
\* does not tell k, and no call follows.
C22_FailedBatchAborts ==
    [][ /\ ipc = "upsert" =>
              /\ icalls' = Append(icalls, icalls'[Len(icalls')])
              /\ icalls'[Len(icalls')].method = "upsert"
              /\ icalls'[Len(icalls')].vectors = Batch(ivectors, batch_size * Len(icalls))
              /\ IF icalls'[Len(icalls')].ok
                 THEN istored' = istored + Len(icalls'[Len(icalls')].vectors)
                 ELSE /\ istored' = istored
                      /\ \A j \in 1..Len(icalls) : icalls[j].ok
                      /\ ipc' = "done"
                      /\ iout'.kind = "raise" /\ iout'.exc.type = "PineconeError"
                      /\ iout'.exc.msg = (IF IsWrapper(iop) THEN WrapperPrefix(iop) ELSE "")
                                             \o "Vector upsert failed: " \o ProviderFault.msg
        /\ (ipc = "done" /\ IsUpsert(iop)) => (icalls' = icalls /\ istored' = istored)
      ]_vars

\* C22 witness: the third batch failed after two accepted ones, whose 200
\* vectors the index holds.
C22_Witness ==
    /\ ipc = "done" /\ iop = "_upsert_vectors" /\ Len(icalls) = 3
    /\ icalls[1].ok /\ icalls[2].ok /\ ~icalls[3].ok
    /\ iout.kind = "raise" /\ istored >= 2 * batch_size

(***************************************************************************)
(* services/embedding_service.py: embed_query, create_cocktail_embeddings  *)
(* and create_ingredient_embeddings, the loop of the last two one item at  *)
(* a time.                                                                 *)
(***************************************************************************)
MaxItems == 3

EmbeddingOps == {"embed_query", "create_cocktail_embeddings", "create_ingredient_embeddings"}
ItemIds == {1, 2}
\* The lists of cocktails or ingredients: any ids, repeated ones included.
ItemLists == UNION {[1..n -> [id : ItemIds]] : n \in 0..MaxItems}
EmbeddingArgs(op) ==
    IF op = "embed_query" THEN {[query |-> q] : q \in {PyStr(text) : text \in QueryTexts} \cup {None}}
    ELSE {[items |-> items] : items \in ItemLists}

\* What ollama.embed may do: as ProviderResponses, and a vector with a
\* component that is no number.
EmbeddingResponses ==
    ProviderResponses \cup {Ret(PyList(<<PyList(<<PyFloat(10), None>>)>>))}

EmptyListMessage(op) ==
    IF op = "create_cocktail_embeddings" THEN "Cocktails list cannot be empty"
    ELSE "Ingredients list cannot be empty"
NoEmbeddingsMessage(op) ==
    IF op = "create_cocktail_embeddings" THEN "Failed to create any cocktail embeddings"
    ELSE "Failed to create any ingredient embeddings"

\* embeddings_map[key] = value
MapSet(map, key, value) == [x \in DOMAIN map \cup {key} |-> IF x = key THEN value ELSE map[x]]
\* The dict a create_*_embeddings call returns.
EmbeddingsDict(map) == [t |-> "dict", map |-> map]

InitEmbedding ==
    /\ epc = "call"
    /\ eop \in EmbeddingOps
    /\ earg \in EmbeddingArgs(eop)
    /\ eenv \in EmbeddingModels
    /\ ecalls = <<>> /\ enext = 0 /\ emap = <<>> /\ eout = Pending
    /\ CoreIdle /\ ConcIdle /\ StartIdle

\* embed_query(query).
EmbedQuery ==
    /\ epc = "call" /\ eop = "embed_query"
    /\ \E response \in EmbeddingResponses :
          \E r \in {embed_query(earg.query, eenv, response)} :
             /\ ecalls' = IF EmbedReachesProvider(earg.query, eenv)
                          THEN <<[model |-> eenv, text |-> Strip(earg.query.s), answer |-> response,
                                  made |-> r.ok]>>
                          ELSE <<>>
             /\ eout' = IF r.ok THEN Returned(r.val) ELSE Raised(r.exc)
             /\ epc' = "done"
    /\ UNCHANGED <<eop, earg, eenv, enext, emap, coreVars, concVars, startVars>>

\* create_*_embeddings up to the loop: the empty list and the model.
CreateStart ==
    /\ epc = "call" /\ eop # "embed_query"
    /\ IF earg.items = <<>>
       THEN eout' = Raised(ValueError(EmptyListMessage(eop))) /\ epc' = "done"
       ELSE IF ~_get_embedding_model(eenv).ok
       THEN eout' = Raised(_get_embedding_model(eenv).exc) /\ epc' = "done"
       ELSE epc' = "loop" /\ UNCHANGED eout
    /\ UNCHANGED <<eop, earg, eenv, ecalls, enext, emap, coreVars, concVars, startVars>>

\* The test after the loop: "if not embeddings_map: raise RuntimeError(...)".
CreateEnd(op, map) ==
    IF DOMAIN map = {} THEN Raised(RuntimeError(NoEmbeddingsMessage(op)))
    ELSE Returned(EmbeddingsDict(map))

\* A loop pass without the handler: the first failing item ends the call.
CreateItemAborting ==
    /\ epc = "loop"
    /\ \E response \in EmbeddingResponses :
          \E r \in {_create_embedding(eenv, <<>>, response)} :
             /\ ecalls' = Append(ecalls, [model |-> eenv, item |-> earg.items[enext + 1].id,
                                          answer |-> response, made |-> r.ok])
             /\ enext' = enext + 1
             /\ \E map \in {IF r.ok THEN MapSet(emap, earg.items[enext + 1].id, r.val) ELSE emap} :
                   /\ emap' = map
                   /\ IF ~r.ok THEN epc' = "done" /\ eout' = Raised(r.exc)
                      ELSE IF enext + 1 < Len(earg.items) THEN UNCHANGED <<epc, eout>>
                      ELSE epc' = "done" /\ eout' = CreateEnd(eop, map)
    /\ UNCHANGED <<eop, earg, eenv, coreVars, concVars, startVars>>

\* One pass of the loop of create_*_embeddings, and after the last one the
\* test that ends the call.
CreateItem ==
    /\ epc = "loop"
    /\ \E response \in EmbeddingResponses :
          \E r \in {_create_embedding(eenv, <<>>, response)} :
             /\ ecalls' = Append(ecalls, [model |-> eenv, item |-> earg.items[enext + 1].id,
                                          answer |-> response, made |-> r.ok])
             /\ enext' = enext + 1
             /\ \E map \in {IF r.ok THEN MapSet(emap, earg.items[enext + 1].id, r.val) ELSE emap} :
                   /\ emap' = map
                   /\ IF enext + 1 < Len(earg.items) THEN UNCHANGED <<epc, eout>>
                      ELSE epc' = "done" /\ eout' = CreateEnd(eop, map)
    /\ UNCHANGED <<eop, earg, eenv, coreVars, concVars, startVars>>

NextEmbedding == EmbedQuery \/ CreateStart \/ CreateItem

SpecEmbedding == InitEmbedding /\ [][NextEmbedding]_vars

\* A text of the queries drawn that is empty or only whitespace.
Blank(text) == \A i \in 1..Len(text) : text[i] = " "
TextRejected == earg.query = None \/ Blank(earg.query.s)

\* C23: embed_query ends a call whose text is empty or whitespace-only with
\* the validation error, also when the model is unset (the text is checked
\* first), and a call with a good text and an unset model with the
\* configuration error; in both cases ollama.embed was not called.
C23_PreconditionsBeforeProvider ==
    (epc = "done" /\ eop = "embed_query") =>
        /\ TextRejected =>
              /\ eout = Raised(ValueError("Query cannot be empty or whitespace"))
              /\ ecalls = <<>>
        /\ (~TextRejected /\ eenv = None) =>
              /\ eout = Raised(ValueError("EMBEDDING_MODEL environment variable is not set"))
              /\ ecalls = <<>>
        /\ (~TextRejected /\ eenv # None) => Len(ecalls) = 1

\* C23 witness: a whitespace-only text with the model unset ended with the
\* validation error and no call of the provider.
C23_Witness ==
    /\ epc = "done" /\ eop = "embed_query" /\ earg.query = PyStr(<<" ">>) /\ eenv = None
    /\ eout = Raised(ValueError("Query cannot be empty or whitespace")) /\ ecalls = <<>>

\* n spaces.
Spaces(n) == [i \in 1..n |-> " "]
\* A component of the provider's vector, in hundredths.
Hundredths(c) == IF c.t = "int" THEN 100 * c.n ELSE c.h

\* C24: when embed_query returns, it called ollama.embed once, with the
\* configured model and the text without its leading and trailing
\* whitespace, and its value is a list as long as the first vector of the
\* answer whose components are floats equal in number and order to that
\* vector's; the other vectors of the answer do not show in it.
C24_TrimmedTextFirstVectorAsFloats ==
    (epc = "done" /\ eop = "embed_query" /\ eout.kind = "return") =>
        /\ Len(ecalls) = 1 /\ ecalls[1].model = eenv
        /\ ecalls[1].text # <<>>
        /\ Head(ecalls[1].text) # " " /\ ecalls[1].text[Len(ecalls[1].text)] # " "
        /\ \E a, b \in 0..Len(earg.query.s) : earg.query.s = Spaces(a) \o ecalls[1].text \o Spaces(b)
        /\ eout.value.t = "list"
        /\ Len(eout.value.items) = Len(ecalls[1].answer.val.items[1].items)
        /\ \A i \in 1..Len(eout.value.items) :
              /\ eout.value.items[i].t = "float"
              /\ eout.value.items[i].h = Hundredths(ecalls[1].answer.val.items[1].items[i])

\* C24 witness: " m" was sent as "m" and the answer [[1, 0.5]] came back as
\* [1.0, 0.5].
C24_Witness ==
    /\ epc = "done" /\ eop = "embed_query" /\ earg.query = PyStr(<<" ", "m">>)
    /\ Len(ecalls) = 1 /\ ecalls[1].text = <<"m">>
    /\ ecalls[1].answer = Ret(PyList(<<PyList(<<PyInt(1), PyFloat(50)>>)>>))
    /\ eout = Returned(PyList(<<PyFloat(100), PyFloat(50)>>))

\* C25 as claimed: embed_query never returns an empty vector; an answer with
\* no vectors, or with a first vector without components, ends in an error.
C25_ReturnedVectorNeverEmpty ==
    (epc = "done" /\ eop = "embed_query" /\ Len(ecalls) = 1 /\ ecalls[1].answer.ok) =>
        /\ eout.kind = "return" => eout.value.items # <<>>
        /\ (\/ ecalls[1].answer.val.items = <<>>
            \/ ecalls[1].answer.val.items[1].items = <<>>) => eout.kind = "raise"

\* The ids of the items whose embedding was made.
MadeIds == {ecalls[i].item : i \in {j \in 1..Len(ecalls) : ecalls[j].made}}

\* What C27 says of a call on a non-empty list: one attempt per item, in
\* order, RuntimeError when none was made, else a map keyed by the made ones.
PerItemTolerant ==
    /\ Len(ecalls) = Len(earg.items)
    /\ \A i \in 1..Len(earg.items) : ecalls[i].item = earg.items[i].id
    /\ IF MadeIds = {} THEN eout = Raised(RuntimeError(NoEmbeddingsMessage(eop)))
       ELSE eout.kind = "return" /\ DOMAIN eout.value.map = MadeIds
EmptyListRejected == eout = Raised(ValueError(EmptyListMessage(eop))) /\ ecalls = <<>>

\* C27 as claimed: for every non-empty list the call tolerates the failure
\* of items; an empty list raises ValueError before any provider call.
C27_PerItemFailureTolerated ==
    (epc = "done" /\ eop # "embed_query") =>
        IF earg.items = <<>> THEN EmptyListRejected ELSE PerItemTolerant

\* C27 amended: the same with the embedding model set; with the model unset
\* a call on a non-empty list raises the configuration ValueError and makes
\* no attempt.
C27_PerItemFailureToleratedWhenConfigured ==
    (epc = "done" /\ eop # "embed_query") =>
        IF earg.items = <<>> THEN EmptyListRejected
        ELSE IF eenv = None
        THEN /\ eout = Raised(ValueError("EMBEDDING_MODEL environment variable is not set"))
             /\ ecalls = <<>>
        ELSE PerItemTolerant

\* C27 witness: of three items the first failed and the other two are the
\* keys of the returned map.
C27_Witness ==
    /\ epc = "done" /\ eop = "create_cocktail_embeddings" /\ Len(earg.items) = 3
    /\ earg.items[1].id = 1 /\ earg.items[2].id = 2 /\ earg.items[3].id = 2
    /\ Len(ecalls) = 3
    /\ ~ecalls[1].made /\ ecalls[2].made /\ ecalls[3].made
    /\ eout.kind = "return" /\ DOMAIN eout.value.map = {2}

(***************************************************************************)
(* Two invocations of run_cocktail_rag at once. Each stage is one step;    *)
(* the steps of the two interleave in any order, so any of them may wait   *)
(* at its embed or search call while the other one runs.                   *)
(***************************************************************************)
\* run_cocktail_rag run alone, given what ollama.embed and index.query answer.
run_cocktail_rag(query_, top_k_, env_, embedResponse, indexResponse) ==
    With(_validate_query(query_), LAMBDA valid :
        IF ~valid.ok THEN Raised(Reraise(valid.exc))
        ELSE With(_create_query_embedding(
                      embed_query(PyStr(Strip(query_.s)), env_, embedResponse)), LAMBDA embedding_ :
            IF ~embedding_.ok THEN Raised(Reraise(embedding_.exc))
            ELSE With(_query_vector_database(
                          query_cocktails(top_k_, embedding_.val, indexResponse)), LAMBDA results_ :
                IF ~results_.ok THEN Raised(Reraise(results_.exc))
                ELSE With(_process_query_results(results_.val), LAMBDA processed_matches :
                    IF ~processed_matches.ok THEN Raised(Reraise(processed_matches.exc))
                    ELSE Returned(processed_matches.val)))))

Invocations == {1, 2}

\* Locals kept in one place shared by all invocations, as module globals would be.
SharedFrame(i) == 1

\* The frame of invocation i: each call of a Python function has its own locals.
Frame(i) == i

\* The arguments and provider answers drawn for an invocation.
InvocationInputs ==
    [ query : {PyStr(<<" ">>), PyStr(<<"m">>)},
      top_k : {default_top_k},
      embed : { Fault("ConnectionError", "connection refused"),
                Ret(PyList(<<EmptyList>>)),
                Ret(PyList(<<PyList(<<PyInt(1), PyFloat(50)>>)>>)) },
      search : { Fault("PineconeApiException", "index unavailable"),
                 Ret(PyObject("QueryResponse", <<[a |-> "matches", v |-> PyList(<<Cocktail1>>)]>>)),
                 Ret(PyDict(<<[k |-> KeyMatches, v |-> PyList(<<Cocktail5>>)]>>)) } ]

InitConcurrent ==
    /\ answers \in [Invocations -> InvocationInputs]
    /\ positions = [i \in Invocations |-> "validate"]
    /\ frames = [i \in Invocations |-> [embedding |-> None, results |-> None]]
    /\ endings = [i \in Invocations |-> Pending]
    /\ moduleState \in {[EMBEDDING_MODEL |-> model] : model \in EmbeddingModels}
    /\ CoreIdle /\ EmbedIdle /\ StartIdle

\* Invocation i goes on to the next stage, or ends by raising.
Advance(i, r, next) ==
    IF r.ok THEN positions' = [positions EXCEPT ![i] = next] /\ UNCHANGED endings
    ELSE /\ positions' = [positions EXCEPT ![i] = "done"]
         /\ endings' = [endings EXCEPT ![i] = Raised(Reraise(r.exc))]

InvocationValidate(i) ==
    /\ positions[i] = "validate"
    /\ \E r \in {_validate_query(answers[i].query)} : Advance(i, r, "embed")
    /\ UNCHANGED <<answers, frames, moduleState, coreVars, embVars, startVars>>

InvocationEmbed(i) ==
    /\ positions[i] = "embed"
    /\ \E r \in {_create_query_embedding(
                     embed_query(PyStr(Strip(answers[i].query.s)), moduleState.EMBEDDING_MODEL,
                                 answers[i].embed))} :
          /\ Advance(i, r, "search")
          /\ frames' = IF r.ok THEN [frames EXCEPT ![Frame(i)].embedding = r.val] ELSE frames
    /\ UNCHANGED <<answers, moduleState, coreVars, embVars, startVars>>

InvocationSearch(i) ==
    /\ positions[i] = "search"
    /\ \E r \in {_query_vector_database(
                     query_cocktails(answers[i].top_k, frames[Frame(i)].embedding,
                                     answers[i].search))} :
          /\ Advance(i, r, "process")
          /\ frames' = IF r.ok THEN [frames EXCEPT ![Frame(i)].results = r.val] ELSE frames
    /\ UNCHANGED <<answers, moduleState, coreVars, embVars, startVars>>

InvocationProcess(i) ==
    /\ positions[i] = "process"
    /\ \E r \in {_process_query_results(frames[Frame(i)].results)} :
          /\ positions' = [positions EXCEPT ![i] = "done"]
          /\ endings' = [endings EXCEPT ![i] = IF r.ok THEN Returned(r.val)
                                                 ELSE Raised(Reraise(r.exc))]
    /\ UNCHANGED <<answers, frames, moduleState, coreVars, embVars, startVars>>

NextConcurrent ==
    \E i \in Invocations :
        InvocationValidate(i) \/ InvocationEmbed(i) \/ InvocationSearch(i) \/ InvocationProcess(i)

SpecConcurrent == InitConcurrent /\ [][NextConcurrent]_vars

\* C26: in every interleaving of two invocations, an invocation that has
\* ended returned or raised what run_cocktail_rag does alone with the same
\* arguments and provider answers; and no step writes the module-level state
\* or the locals or outcome of an invocation that did not take the step.
C26_InvocationsDoNotInteract ==
    /\ [](\A i \in Invocations :
            positions[i] = "done" =>
                endings[i] = run_cocktail_rag(answers[i].query, answers[i].top_k,
                                               moduleState.EMBEDDING_MODEL,
                                               answers[i].embed, answers[i].search))
    /\ [][ /\ moduleState' = moduleState
           /\ \A i \in Invocations :
                 positions'[i] = positions[i] =>
                     frames'[i] = frames[i] /\ endings'[i] = endings[i] ]_vars

\* C26 witness: both invocations have ended, the first with records and the
\* second, whose embedding came back empty, with an error.
C26_Witness ==
    /\ positions[1] = "done" /\ positions[2] = "done"
    /\ endings[1].kind = "return" /\ endings[1].value # EmptyList
    /\ endings[2].kind = "raise" /\ frames[2].embedding = EmptyList

(***************************************************************************)
(* init.py: the startup script, one service call per step, run twice over  *)
(* the same catalog. The catalogs drawn are smaller than batch_size, so an *)
(* upsert is one call of index.upsert.                                     *)
(***************************************************************************)
\* A script that rebuilds whatever the index reports.
AlwaysRebuild(cocktails, ingredients, vector_count) == TRUE

\* len(cocktails) + len(ingredients) != vector_count
RebuildNeeded(cocktails, ingredients, vector_count) ==
    Len(cocktails) + Len(ingredients) # vector_count

\* The items of the data file: with an id, or with "id": null, which
\* _is_valid_cocktail and _is_valid_ingredient refuse.
Item(id) == [id |-> id, valid |-> TRUE]
NullIdItem == [id |-> 0, valid |-> FALSE]
Catalogs ==
    [ cocktail : {<<>>, <<Item(1)>>, <<Item(1), Item(2)>>, <<Item(1), Item(1)>>,
                  <<Item(1), NullIdItem>>},
      ingredient : {<<>>, <<Item(1)>>, <<Item(1), Item(1)>>} ]

\* The vectors an upsert of the items makes, as the index keys them.
VectorsOf(kind, items) == {[kind |-> kind, id |-> items[i].id] : i \in {j \in 1..Len(items) : items[j].valid}}
StaleVector == [kind |-> "cocktail", id |-> 9]

InitStartup ==
    /\ spc = "count" /\ srun = 1
    /\ scatalog \in Catalogs
    /\ sindex \in {{}, {StaleVector},
                   VectorsOf("cocktail", scatalog.cocktail)
                       \cup VectorsOf("ingredient", scatalog.ingredient)}
    /\ svector_count = 0
    /\ sembeddings = [cocktail |-> {}, ingredient |-> {}]
    /\ scalls = <<>> /\ sprev = <<>> /\ sout = Pending
    /\ CoreIdle /\ EmbedIdle /\ ConcIdle

\* The script ends with an uncaught exception.
StartupRaise(type) == sout' = Raised(Exception(type, "", "none")) /\ spc' = "done"

\* vector_count = get_num_vectors(), then the comparison.
StartupCount ==
    /\ spc = "count"
    /\ \E ok \in BOOLEAN :
          /\ scalls' = Append(scalls, [op |-> "get_num_vectors", ok |-> ok, items |-> 0, made |-> 0])
          /\ IF ~ok THEN StartupRaise("PineconeError") /\ UNCHANGED svector_count
             ELSE /\ svector_count' = Cardinality(sindex)
                  /\ IF RebuildNeeded(scatalog.cocktail, scatalog.ingredient, Cardinality(sindex))
                     THEN spc' = "clear" /\ UNCHANGED sout
                     ELSE spc' = "done" /\ sout' = Returned(None)
    /\ UNCHANGED <<srun, scatalog, sindex, sembeddings, sprev, coreVars, embVars, concVars>>

\* if vector_count > 0: clear_vectorspace()
StartupClear ==
    /\ spc = "clear"
    /\ IF svector_count > 0
       THEN \E ok \in BOOLEAN :
               /\ scalls' = Append(scalls, [op |-> "clear_vectorspace", ok |-> ok, items |-> 0,
                                            made |-> 0])
               /\ IF ok THEN sindex' = {} /\ spc' = "embed_cocktail" /\ UNCHANGED sout
                  ELSE StartupRaise("PineconeError") /\ UNCHANGED sindex
       ELSE spc' = "embed_cocktail" /\ UNCHANGED <<scalls, sindex, sout>>
    /\ UNCHANGED <<srun, scatalog, svector_count, sembeddings, sprev, coreVars, embVars, concVars>>

NextOf(step) ==
    CASE step = "embed_cocktail" -> "embed_ingredient"
      [] step = "embed_ingredient" -> "upsert_cocktail"
      [] step = "upsert_cocktail" -> "upsert_ingredient"
      [] step = "upsert_ingredient" -> "done"

\* create_cocktail_embeddings / create_ingredient_embeddings: the embeddings
\* of the items at the positions `made` are made, the others fail.
StartupEmbed(kind) ==
    /\ spc = "embed_" \o kind
    /\ \E made \in SUBSET (1..Len(scatalog[kind])) :
          /\ scalls' = Append(scalls, [op |-> "create_" \o kind \o "_embeddings",
                                       ok |-> (made # {}), items |-> Len(scatalog[kind]),
                                       made |-> Cardinality(made)])
          /\ IF scatalog[kind] = <<>> THEN StartupRaise("ValueError") /\ UNCHANGED sembeddings
             ELSE IF made = {} THEN StartupRaise("RuntimeError") /\ UNCHANGED sembeddings
             ELSE /\ sembeddings' = [sembeddings EXCEPT ![kind] = {scatalog[kind][i].id : i \in made}]
                  /\ spc' = NextOf(spc) /\ UNCHANGED sout
    /\ UNCHANGED <<srun, scatalog, sindex, svector_count, sprev, coreVars, embVars, concVars>>

\* upsert_cocktail_embeddings / upsert_ingredient_embeddings.
StartupUpsert(kind) ==
    /\ spc = "upsert_" \o kind
    /\ \E vectors \in {CreateVectorsToUpsert(kind, scatalog[kind], sembeddings[kind])} :
          IF vectors = <<>>
          THEN /\ scalls' = Append(scalls, [op |-> "upsert_" \o kind \o "_embeddings", ok |-> TRUE,
                                            items |-> 0, made |-> 0])
               /\ UNCHANGED sindex
               /\ spc' = NextOf(spc)
               /\ sout' = IF NextOf(spc) = "done" THEN Returned(None) ELSE sout
          ELSE \E ok \in BOOLEAN :
                 /\ scalls' = Append(scalls, [op |-> "upsert_" \o kind \o "_embeddings", ok |-> ok,
                                              items |-> Len(vectors), made |-> 0])
                 /\ IF ~ok THEN StartupRaise("PineconeError") /\ UNCHANGED sindex
                    ELSE /\ sindex' = sindex \cup {vectors[i] : i \in 1..Len(vectors)}
                         /\ spc' = NextOf(spc)
                         /\ sout' = IF NextOf(spc) = "done" THEN Returned(None) ELSE sout
    /\ UNCHANGED <<srun, scatalog, svector_count, sembeddings, sprev, coreVars, embVars, concVars>>

\* The script is started again over the same catalog and index.
StartupAgain ==
    /\ spc = "done" /\ srun = 1
    /\ srun' = 2 /\ spc' = "count"
    /\ sprev' = scalls /\ scalls' = <<>> /\ sout' = Pending
    /\ svector_count' = 0 /\ sembeddings' = [cocktail |-> {}, ingredient |-> {}]
    /\ UNCHANGED <<scatalog, sindex, coreVars, embVars, concVars>>

NextStartup ==
    \/ StartupCount \/ StartupClear
    \/ StartupEmbed("cocktail") \/ StartupEmbed("ingredient")
    \/ StartupUpsert("cocktail") \/ StartupUpsert("ingredient")
    \/ StartupAgain

SpecStartup == InitStartup /\ [][NextStartup]_vars

\* The positions in the calls of a run of the calls of the operations `ops`.
CallsOf(calls, ops) == {i \in 1..Len(calls) : calls[i].op \in ops}
Mutating == {"clear_vectorspace", "upsert_cocktail_embeddings", "upsert_ingredient_embeddings"}
Creating == {"create_cocktail_embeddings", "create_ingredient_embeddings"}
CatalogSize == Len(scatalog.cocktail) + Len(scatalog.ingredient)
\* The count the provider reported in this run, once it has.
Reported == scalls # <<>> /\ scalls[1].ok

\* C29: a run makes a clear or upsert call only after the provider reported
\* a count that differs from len(cocktails) + len(ingredients); with equal
\* counts it makes none and leaves the index as it was; clear_vectorspace is
\* called at most once, only with a reported count above 0, and before every
\* embedding creation and upsert; the cocktail upsert comes before the
\* ingredient upsert.
C29_MutatesOnlyOnMismatch ==
    /\ CallsOf(scalls, Mutating) # {} => (Reported /\ svector_count # CatalogSize)
    /\ (Reported /\ svector_count = CatalogSize) =>
          (spc = "done" /\ Len(scalls) = 1 /\ Cardinality(sindex) = svector_count)
    /\ Cardinality(CallsOf(scalls, {"clear_vectorspace"})) <= 1
    /\ \A c \in CallsOf(scalls, {"clear_vectorspace"}) :
          /\ svector_count > 0
          /\ \A other \in CallsOf(scalls, Creating \cup Mutating) : c <= other
    /\ \A c \in CallsOf(scalls, {"upsert_cocktail_embeddings"}) :
          \A i \in CallsOf(scalls, {"upsert_ingredient_embeddings"}) : c < i
    /\ (spc \in {"embed_cocktail", "embed_ingredient", "upsert_cocktail", "upsert_ingredient"}
          /\ svector_count > 0) => CallsOf(scalls, {"clear_vectorspace"}) # {}

\* C29 witness: with a stale vector in the index the run cleared it first,
\* then created the embeddings and upserted cocktails, then ingredients.
C29_Witness ==
    /\ spc = "done" /\ srun = 1 /\ svector_count = 1 /\ CatalogSize = 3
    /\ Len(scalls) = 6
    /\ scalls[2].op = "clear_vectorspace"
    /\ scalls[5].op = "upsert_cocktail_embeddings" /\ scalls[6].op = "upsert_ingredient_embeddings"
    /\ scalls[6].ok

\* C29 witness of the other branch: the counts were equal and the run made
\* no call but get_num_vectors.
C29_WitnessUpToDate ==
    /\ spc = "done" /\ svector_count = CatalogSize /\ CatalogSize > 0
    /\ sout = Returned(None) /\ Len(scalls) = 1

\* The run before took the rebuild branch, embedded every item and no call
\* of it failed.
RebuiltWithoutFailure(calls) ==
    /\ CallsOf(calls, {"upsert_ingredient_embeddings"}) # {}
    /\ \A i \in 1..Len(calls) : calls[i].ok
    /\ \A i \in CallsOf(calls, Creating) : calls[i].made = calls[i].items

\* C30 as claimed: after a rebuild in which every embedding was made and
\* every call succeeded the index holds len(cocktails) + len(ingredients)
\* vectors, and the next run over the same catalog finds it up to date and
\* makes no clear or upsert call.
C30_RebuildConverges ==
    /\ (spc = "done" /\ RebuiltWithoutFailure(scalls)) => Cardinality(sindex) = CatalogSize
    /\ (srun = 2 /\ RebuiltWithoutFailure(sprev)) => CallsOf(scalls, Mutating) = {}

=============================================================================
